---- MODULE Spec2Model ----
(***************************************************************************)
(* source-vs-npm: the sandboxed build script (docker/buildPackage.js), the *)
(* per-package audit (auditPackage) and the worker pool that drives it.    *)
(*                                                                         *)
(* Strings are sequences of tokens: "@babel/types" is <<"@","babel","/",   *)
(* "types">>, so that split, slice, replace, startsWith and endsWith are   *)
(* computed as the code computes them.                                     *)
(***************************************************************************)
EXTENDS Integers, Sequences, FiniteSets, TLC

VARIABLES
    \* ---- docker/buildPackage.js ----
    scriptArgs,      \* [packageName, gitUrl, version, publishedDate]
    pc,              \* position of the build script
    repo,            \* what the clone contains: tags, manifests, lockfiles
    cwd,             \* process.cwd(), relative to the clone's parent
    pkgMngr,
    packageSubdir,   \* Null or a directory path
    tagIdx,          \* index into possibleTagNames of the next checkout
    manifests,       \* rootPackageJson / subdirPackageJson as read
    hasBuilt,
    finalTgz,
    thrown,          \* the exception on its way to the giant catch
    buildResult,     \* the object written to buildResult.json
    cmds,            \* every command handed to run(), in order
    outputDir,       \* files in the host-visible /home/node/build
    \* ---- auditPackage ----
    auditPc,         \* position of auditPackage
    auditedPackage,  \* its packageName argument
    whatToAudit,     \* the lower-cased command line
    resultsFile,     \* audits/<package>/results.json on disk
    resultJson,      \* the record being assembled
    buildDirFiles,   \* the entries of <versionDir>/build
    contentPaths,    \* builtContentPath and publishedContentPath
    trees,           \* the extracted trees, built and published
    caught,          \* the exception on its way to the catch block
    escaped,         \* the exception that left auditPackage
    ops,             \* external operations performed, in order
    \* ---- the worker pool ----
    packageNamesQueue,  \* names not yet handed to a worker; pop() takes the last
    workers,            \* what each doAuditsUntilFinished() is awaiting
    auditsDir,          \* audits/<package>/results.json, per package
    processStatus,      \* the node process: running, crashed, finished
    allResults,         \* allResults.json once written
    resultsHtml         \* results.html once written

resolverVars == <<scriptArgs, pc, repo, cwd, pkgMngr, packageSubdir, tagIdx,
                  manifests, hasBuilt, finalTgz, thrown, buildResult, cmds,
                  outputDir>>

auditVars == <<auditPc, auditedPackage, whatToAudit, resultsFile, resultJson,
               buildDirFiles, contentPaths, trees, caught, escaped, ops>>

poolVars == <<packageNamesQueue, workers, auditsDir, processStatus, allResults,
              resultsHtml>>

vars == <<resolverVars, auditVars, poolVars>>

Null == <<"null">>
NoException == [kind |-> "none", errorCode |-> ""]

-----------------------------------------------------------------------------
(* String helpers over token sequences *)

StartsWith(s, p) == Len(p) <= Len(s) /\ SubSeq(s, 1, Len(p)) = p

EndsWith(s, p) == Len(p) <= Len(s) /\ SubSeq(s, Len(s) - Len(p) + 1, Len(s)) = p

Includes(s, tok) == \E i \in 1..Len(s) : s[i] = tok

\* index of the first occurrence of pattern p in s, 0 when there is none
IndexOf(s, p) ==
    LET hits == {i \in 1..(Len(s) - Len(p) + 1) : SubSeq(s, i, i + Len(p) - 1) = p}
    IN IF hits = {} THEN 0 ELSE CHOOSE i \in hits : \A j \in hits : i <= j

\* String.prototype.replace with a string pattern: first occurrence only
ReplaceFirst(s, p, r) ==
    LET i == IndexOf(s, p)
    IN IF i = 0 THEN s
       ELSE SubSeq(s, 1, i - 1) \o r \o SubSeq(s, i + Len(p), Len(s))

\* String.prototype.split("/")
RECURSIVE SplitSlash(_)
SplitSlash(s) ==
    LET i == IndexOf(s, <<"/">>)
    IN IF i = 0 THEN <<s>>
       ELSE <<SubSeq(s, 1, i - 1)>> \o SplitSlash(SubSeq(s, i + 1, Len(s)))

Last(seq) == seq[Len(seq)]

SeqToSet(seq) == {seq[i] : i \in 1..Len(seq)}

\* first element of seq satisfying membership in S, Null if there is none
FirstIn(seq, S) ==
    LET hits == {i \in 1..Len(seq) : seq[i] \in S}
    IN IF hits = {} THEN Null
       ELSE seq[CHOOSE i \in hits : \A j \in hits : i <= j]

-----------------------------------------------------------------------------
(* Inputs of the build script *)

MaxTags == 2          \* how many tags a cloned repository has at most
MaxManifestDirs == 2  \* how many candidate directories hold a package.json

Lodash == <<"lodash">>
BabelTypes == <<"@", "babel", "/", "types">>
TypesNode == <<"@", "types", "/", "node">>

BabelUrl == "https://github.com/babel/babel.git"
ReactUrl == "https://github.com/facebook/react.git"
OtherUrl == "https://github.com/lodash/lodash.git"

TheVersion == <<"1.0.0">>
ThePublishedDate == <<"2020-01-01T00:00:00.000Z">>

\* the (packageName, gitUrl) pairs the script is started with
Requests ==
    { <<Lodash, OtherUrl>>, <<Lodash, ReactUrl>>, <<BabelTypes, BabelUrl>>,
      <<BabelTypes, OtherUrl>>, <<TypesNode, OtherUrl>> }

repoRoot == <<"/", "gitrepo">>
hostBuildDir == <<"/", "home", "/", "node", "/", "build">>

IsTypesPackage(name) == StartsWith(name, <<"@", "types", "/">>)

\* the order of an earlier revision: the bare version is tried first
possibleTagNamesVersionFirst(name, ver) ==
    LET base == << ver,
                   <<"v">> \o ver,
                   name \o <<"-">> \o ver,
                   name \o <<"-", "v">> \o ver,
                   name \o <<"@">> \o ver,
                   name \o <<"/">> \o ver >>
        subname == Last(SplitSlash(name))
    IN IF Includes(name, "/")
       THEN << ver,
               <<"v">> \o ver,
               subname \o <<"-">> \o ver,
               name \o <<"-">> \o ver,
               subname \o <<"-", "v">> \o ver,
               name \o <<"-", "v">> \o ver,
               subname \o <<"@">> \o ver,
               name \o <<"@">> \o ver,
               subname \o <<"/">> \o ver,
               name \o <<"/">> \o ver >>
       ELSE base

\* buildPackage.js:137-154
possibleTagNames(name, ver) ==
    LET base == << name \o <<"-">> \o ver,
                   name \o <<"-", "v">> \o ver,
                   name \o <<"@">> \o ver,
                   name \o <<"/">> \o ver,
                   ver,
                   <<"v">> \o ver >>
        subname == Last(SplitSlash(name))
    IN IF Includes(name, "/")
       THEN << subname \o <<"-">> \o ver,
               subname \o <<"-", "v">> \o ver,
               subname \o <<"@">> \o ver,
               subname \o <<"/">> \o ver >> \o base
       ELSE base

\* buildPackage.js:85-88
firstSubfolderNames(name) ==
    << repoRoot \o <<"/">> \o name,
       repoRoot \o <<"/", "packages", "/">> \o name >>

\* a candidate list that stops before the <scope>-<sub> directories
scopedSubfolderNamesNoHyphen(name) ==
    LET parts == SplitSlash(name)
        subname == parts[2]
        noAtPkgName == ReplaceFirst(name, <<"@">>, <<>>)
    IN << repoRoot \o <<"/">> \o name,
          repoRoot \o <<"/", "packages", "/">> \o name,
          repoRoot \o <<"/">> \o subname,
          repoRoot \o <<"/", "packages", "/">> \o subname,
          repoRoot \o <<"/">> \o noAtPkgName,
          repoRoot \o <<"/", "packages", "/">> \o noAtPkgName >>

\* buildPackage.js:101-116
scopedSubfolderNames(name) ==
    LET parts == SplitSlash(name)
        namespace == parts[1]
        subname == parts[2]
        noAtNs == ReplaceFirst(namespace, <<"@">>, <<>>)
        noAtPkgName == ReplaceFirst(name, <<"@">>, <<>>)
    IN << repoRoot \o <<"/">> \o name,
          repoRoot \o <<"/", "packages", "/">> \o name,
          repoRoot \o <<"/">> \o subname,
          repoRoot \o <<"/", "packages", "/">> \o subname,
          repoRoot \o <<"/">> \o noAtPkgName,
          repoRoot \o <<"/", "packages", "/">> \o noAtPkgName,
          repoRoot \o <<"/">> \o noAtNs \o <<"-">> \o subname,
          repoRoot \o <<"/", "packages", "/">> \o noAtNs \o <<"-">> \o subname >>

\* a search that keeps looking after a hit and so ends on the last candidate
findPackageSubdirLast(name, dirs) ==
    LET all == IF Includes(name, "/")
               THEN firstSubfolderNames(name) \o scopedSubfolderNames(name)
               ELSE firstSubfolderNames(name)
        hits == {i \in 1..Len(all) : all[i] \in dirs}
    IN IF hits = {} THEN Null
       ELSE all[CHOOSE i \in hits : \A j \in hits : i >= j]

\* buildPackage.js:83-123: existsSync(dir/package.json) is dir \in dirs
findPackageSubdir(name, dirs) ==
    LET first == FirstIn(firstSubfolderNames(name), dirs)
    IN IF first = Null /\ Includes(name, "/")
       THEN FirstIn(scopedSubfolderNames(name), dirs)
       ELSE first

\* a detection in which pnpm-lock.yaml is looked at first
choosePkgMngrPnpmFirst(yarnLock, pnpmLock) ==
    IF pnpmLock THEN "pnpm" ELSE IF yarnLock THEN "yarn" ELSE "npm"

\* buildPackage.js:74-76
choosePkgMngr(yarnLock, pnpmLock) ==
    IF yarnLock THEN "yarn" ELSE IF pnpmLock THEN "pnpm" ELSE "npm"

\* the directories of a clone in which a package.json can lie
ManifestDirUniverse(name) ==
    SeqToSet(firstSubfolderNames(name))
      \cup (IF Includes(name, "/") THEN SeqToSet(scopedSubfolderNames(name)) ELSE {})

\* the tags a clone can carry: the candidates and one unrelated tag
TagUniverse(name, ver) == SeqToSet(possibleTagNames(name, ver)) \cup {<<"latest">>}

NoLockfile == [yarnLock |-> FALSE, pnpmLock |-> FALSE]

Repo(tags, manifestDirs, lock) ==
    [tags |-> tags, manifestDirs |-> manifestDirs,
     yarnLock |-> lock.yarnLock, pnpmLock |-> lock.pnpmLock]

\* the clones the script can meet. One fact varies at a time: the tags of a
\* repository without package directories, the package directories of a
\* repository that is untagged or tagged v<version>, and the lockfiles
Repos(name, ver) ==
    LET vTag == {<<"v">> \o ver}
        packagesDir == {firstSubfolderNames(name)[2]}
    IN { Repo(T, {}, NoLockfile) :
           T \in {T \in SUBSET TagUniverse(name, ver) : Cardinality(T) <= MaxTags} }
       \cup
       { Repo(T, D, NoLockfile) :
           T \in {{}, vTag},
           D \in {D \in SUBSET ManifestDirUniverse(name) :
                     Cardinality(D) <= MaxManifestDirs} }
       \cup
       { Repo(vTag, D, lock) :
           D \in {{}, packagesDir},
           lock \in [yarnLock : BOOLEAN, pnpmLock : BOOLEAN] }

MaxCleanPublishMarkers == 1  \* clean-publish markers over both manifests
MaxStdoutLines == 2          \* lines of `pack` output

\* a parsed package.json: has it a build script, has it clean-publish markers
ManifestShapes ==
    [read : {TRUE}, build : BOOLEAN, devDepCleanPublish : BOOLEAN,
     cfgCleanPublish : BOOLEAN]

\* a manifest variable that was never assigned
NoManifest ==
    [read |-> FALSE, build |-> FALSE, devDepCleanPublish |-> FALSE,
     cfgCleanPublish |-> FALSE]

Markers(m) ==
    (IF m.devDepCleanPublish THEN 1 ELSE 0) + (IF m.cfgCleanPublish THEN 1 ELSE 0)

\* the manifests the clone can hold, subdir being undefined without a subdir
ManifestPairs(withSubdir) ==
    { p \in [root : ManifestShapes,
             subdir : IF withSubdir THEN ManifestShapes ELSE {NoManifest}] :
        Markers(p.root) + Markers(p.subdir) <= MaxCleanPublishMarkers }

\* a test for a scripts object alone
HasScriptsObject(m) == m.read

\* scripts && "build" in scripts
HasBuildScript(m) == m.read /\ m.build

-----------------------------------------------------------------------------
(* docker/buildPackage.js, one action per awaited step *)

packageName == scriptArgs.packageName
gitUrl == scriptArgs.gitUrl
version == scriptArgs.version
publishedDate == scriptArgs.publishedDate

BuildFailed(errorCode) == [kind |-> "BuildFailed", errorCode |-> errorCode]
OtherError == [kind |-> "Error", errorCode |-> ""]

\* obj[key] = value on a JavaScript object
SetKey(obj, key, value) ==
    [k \in DOMAIN obj \cup {key} |-> IF k = key THEN value ELSE obj[k]]

HasKey(obj, key) == key \in DOMAIN obj

EmptyObject == [k \in {} |-> TRUE]

\* run(command, {cwd}) as logged: buildPackage.js:32-51
Cmd(words, dir) == [command |-> words, cwd |-> dir]

Ran(words) == \E i \in 1..Len(cmds) : cmds[i].command = words

RanOp(word) == \E i \in 1..Len(cmds) : Includes(cmds[i].command, word)

Throw(e) == pc' = "catch" /\ thrown' = e

ResolverInit ==
    /\ scriptArgs \in { [packageName |-> r[1], gitUrl |-> r[2],
                         version |-> TheVersion,
                         publishedDate |-> ThePublishedDate] : r \in Requests }
    /\ pc = "clone"
    /\ repo = [tags |-> {}, manifestDirs |-> {}, yarnLock |-> FALSE, pnpmLock |-> FALSE]
    /\ cwd = <<"/">>
    /\ pkgMngr = "npm"
    /\ packageSubdir = Null
    /\ tagIdx = 1
    /\ manifests = [root |-> NoManifest, subdir |-> NoManifest]
    /\ hasBuilt = FALSE
    /\ finalTgz = Null
    /\ thrown = NoException
    /\ buildResult = EmptyObject
    /\ cmds = <<>>
    /\ outputDir = {}
    \* the audit and the pool are not part of this run
    /\ auditPc = "idle"
    /\ auditedPackage = <<>>
    /\ whatToAudit = {}
    /\ resultsFile = EmptyObject
    /\ resultJson = EmptyObject
    /\ buildDirFiles = {}
    /\ contentPaths = [built |-> <<>>, published |-> <<>>]
    /\ trees = [built |-> EmptyObject, published |-> EmptyObject]
    /\ caught = [kind |-> "none", category |-> <<>>]
    /\ escaped = [kind |-> "none", category |-> <<>>]
    /\ ops = <<>>
    /\ packageNamesQueue = <<>>
    /\ workers = <<>>
    /\ auditsDir = EmptyObject
    /\ processStatus = "idle"
    /\ allResults = <<>>
    /\ resultsHtml = Null

\* a clone whose failure is not wrapped in BuildFailed("clone failed")
CloneFailureUnclassified ==
    /\ pc = "clone"
    /\ cmds' = Append(cmds, Cmd(<< <<"git">>, <<"clone">> >>, cwd))
    /\ \/ /\ Throw(OtherError)
          /\ UNCHANGED <<repo, cwd, pkgMngr, packageSubdir, buildResult>>
       \/ \E r \in Repos(packageName, version) :
            /\ repo' = r
            /\ cwd' = repoRoot
            /\ pkgMngr' = choosePkgMngr(r.yarnLock, r.pnpmLock)
            /\ packageSubdir' = findPackageSubdir(packageName, r.manifestDirs)
            /\ buildResult' =
                 SetKey(SetKey(buildResult, "packageManager", pkgMngr'),
                        "subdir", packageSubdir')
            /\ pc' = IF IsTypesPackage(packageName) THEN "typesChdir" ELSE "checkout"
            /\ UNCHANGED thrown
    /\ UNCHANGED <<scriptArgs, tagIdx, manifests, hasBuilt, finalTgz, outputDir>>
    /\ UNCHANGED <<auditVars, poolVars>>

\* buildPackage.js:67-124: git clone, then the synchronous search for the
\* package manager and the package subdirectory
Clone ==
    /\ pc = "clone"
    /\ cmds' = Append(cmds, Cmd(<< <<"git">>, <<"clone">> >>, cwd))
    /\ \/ /\ Throw(BuildFailed("clone failed"))
          /\ UNCHANGED <<repo, cwd, pkgMngr, packageSubdir, buildResult>>
       \/ \E r \in Repos(packageName, version) :
            LET mngr == choosePkgMngr(r.yarnLock, r.pnpmLock)
                subdir == findPackageSubdir(packageName, r.manifestDirs)
            IN /\ repo' = r
               /\ cwd' = repoRoot
               /\ pkgMngr' = mngr
               /\ packageSubdir' = subdir
               /\ buildResult' = SetKey(SetKey(buildResult, "packageManager", mngr),
                                        "subdir", subdir)
               /\ pc' = IF IsTypesPackage(packageName) THEN "typesChdir" ELSE "checkout"
               /\ UNCHANGED thrown
    /\ UNCHANGED <<scriptArgs, tagIdx, manifests, hasBuilt, finalTgz, outputDir>>
    /\ UNCHANGED <<auditVars, poolVars>>

\* buildPackage.js:126-132: process.chdir throws when the directory is missing
TypesChdir ==
    /\ pc = "typesChdir"
    /\ buildResult' = SetKey(buildResult, "isDefinitelyTyped", TRUE)
    /\ \/ /\ cwd' = cwd \o <<"/">> \o Tail(packageName)
          /\ pc' = "readManifests"
          /\ UNCHANGED thrown
       \/ /\ Throw(OtherError)
          /\ UNCHANGED cwd
    /\ UNCHANGED <<scriptArgs, repo, pkgMngr, packageSubdir, tagIdx, manifests,
                   hasBuilt, finalTgz, cmds, outputDir>>
    /\ UNCHANGED <<auditVars, poolVars>>

\* buildPackage.js:156-166: one pass of the checkout loop; git checkout
\* succeeds exactly when the tag exists in the clone
Checkout ==
    /\ pc = "checkout"
    /\ tagIdx <= Len(possibleTagNames(packageName, version))
    /\ LET tagName == possibleTagNames(packageName, version)[tagIdx]
       IN /\ cmds' = Append(cmds, Cmd(<< <<"git">>, <<"checkout">>, tagName >>, cwd))
          /\ IF tagName \in repo.tags
             THEN /\ buildResult' = SetKey(buildResult, "tag", tagName)
                  /\ pc' = "readManifests"
                  /\ UNCHANGED tagIdx
             ELSE /\ tagIdx' = tagIdx + 1
                  /\ UNCHANGED <<buildResult, pc>>
    /\ UNCHANGED <<scriptArgs, repo, cwd, pkgMngr, packageSubdir, manifests,
                   hasBuilt, finalTgz, thrown, outputDir>>
    /\ UNCHANGED <<auditVars, poolVars>>

\* the loop falling through to the build without a tag
NoTagMatchFallThrough ==
    /\ pc = "checkout"
    /\ tagIdx > Len(possibleTagNames(packageName, version))
    /\ pc' = "readManifests"
    /\ UNCHANGED <<scriptArgs, repo, cwd, pkgMngr, packageSubdir, tagIdx, manifests,
                   hasBuilt, finalTgz, thrown, buildResult, cmds, outputDir>>
    /\ UNCHANGED <<auditVars, poolVars>>

\* buildPackage.js:167-170
NoTagMatch ==
    /\ pc = "checkout"
    /\ tagIdx > Len(possibleTagNames(packageName, version))
    /\ Throw(BuildFailed("no tag match"))
    /\ UNCHANGED <<scriptArgs, repo, cwd, pkgMngr, packageSubdir, tagIdx, manifests,
                   hasBuilt, finalTgz, buildResult, cmds, outputDir>>
    /\ UNCHANGED <<auditVars, poolVars>>

\* a Babel test on the package name in place of the repository URL
AfterBuildByPackageName == IF packageName = BabelTypes THEN "makePrepublish" ELSE "chdir"

\* buildPackage.js:248-249: what follows the generic build step
AfterBuild == IF gitUrl = BabelUrl THEN "makePrepublish" ELSE "chdir"

\* a root build that does not look at hasBuilt
RootBuildOrOnAlways(built) ==
    IF HasBuildScript(manifests.root)
    THEN IF packageSubdir # Null THEN "buildRootWithName" ELSE "buildRoot"
    ELSE AfterBuild

\* buildPackage.js:226-245: the root build, unless something was built
RootBuildOrOn(built) ==
    IF ~built /\ HasBuildScript(manifests.root)
    THEN IF packageSubdir # Null THEN "buildRootWithName" ELSE "buildRoot"
    ELSE AfterBuild

\* buildPackage.js:205-224
SubdirBuildOrOn ==
    IF packageSubdir # Null /\ HasBuildScript(manifests.subdir)
    THEN "buildSubdir"
    ELSE RootBuildOrOn(FALSE)

\* buildPackage.js:196
beforeDateArgs == IF pkgMngr = "npm" THEN << <<"--before">>, publishedDate >> ELSE <<>>

installCommand == << <<pkgMngr>>, <<"install">> >> \o beforeDateArgs

\* buildPackage.js:175-181: reading a manifest that is missing throws
ReadManifests ==
    /\ pc = "readManifests"
    /\ \/ \E p \in ManifestPairs(packageSubdir # Null) :
            /\ manifests' = p
            /\ pc' = IF IsTypesPackage(packageName) THEN AfterBuild ELSE "installRoot"
            /\ UNCHANGED thrown
       \/ /\ Throw(OtherError)
          /\ UNCHANGED manifests
    /\ UNCHANGED <<scriptArgs, repo, cwd, pkgMngr, packageSubdir, tagIdx,
                   hasBuilt, finalTgz, buildResult, cmds, outputDir>>
    /\ UNCHANGED <<auditVars, poolVars>>

\* buildPackage.js:198
InstallRoot ==
    /\ pc = "installRoot"
    /\ cmds' = Append(cmds, Cmd(installCommand, cwd))
    /\ \/ /\ pc' = IF packageSubdir # Null THEN "installSubdir" ELSE SubdirBuildOrOn
          /\ UNCHANGED thrown
       \/ Throw(OtherError)
    /\ UNCHANGED <<scriptArgs, repo, cwd, pkgMngr, packageSubdir, tagIdx, manifests,
                   hasBuilt, finalTgz, buildResult, outputDir>>
    /\ UNCHANGED <<auditVars, poolVars>>

\* buildPackage.js:199-203
InstallSubdir ==
    /\ pc = "installSubdir"
    /\ cmds' = Append(cmds, Cmd(installCommand, packageSubdir))
    /\ \/ /\ pc' = SubdirBuildOrOn
          /\ UNCHANGED thrown
       \/ Throw(OtherError)
    /\ UNCHANGED <<scriptArgs, repo, cwd, pkgMngr, packageSubdir, tagIdx, manifests,
                   hasBuilt, finalTgz, buildResult, outputDir>>
    /\ UNCHANGED <<auditVars, poolVars>>

\* buildPackage.js:184-189: the bookkeeping of a build command that exited 0
attemptBuildSucceeded(cmd, subdir) ==
    /\ buildResult' = SetKey(SetKey(buildResult, "successfulBuildCommand", cmd),
                             "ranBuildFrom", subdir)
    /\ hasBuilt' = TRUE

\* buildPackage.js:210-223: a failure here is swallowed
BuildSubdir ==
    /\ pc = "buildSubdir"
    /\ LET cmd == << <<pkgMngr>>, <<"run">>, <<"build">> >>
       IN /\ cmds' = Append(cmds, Cmd(cmd, packageSubdir))
          /\ \/ /\ attemptBuildSucceeded(cmd, packageSubdir)
                /\ pc' = RootBuildOrOn(TRUE)
             \/ /\ pc' = RootBuildOrOn(FALSE)
                /\ UNCHANGED <<buildResult, hasBuilt>>
    /\ UNCHANGED <<scriptArgs, repo, cwd, pkgMngr, packageSubdir, tagIdx, manifests,
                   finalTgz, thrown, outputDir>>
    /\ UNCHANGED <<auditVars, poolVars>>

\* a root build with the package name whose failure is not retried
BuildRootWithNameNoRetry ==
    /\ pc = "buildRootWithName"
    /\ LET cmd == << <<pkgMngr>>, <<"run">>, <<"build">>, packageName >>
       IN /\ cmds' = Append(cmds, Cmd(cmd, cwd))
          /\ \/ /\ attemptBuildSucceeded(cmd, Null)
                /\ pc' = AfterBuild
                /\ UNCHANGED thrown
             \/ /\ Throw(OtherError)
                /\ UNCHANGED <<buildResult, hasBuilt>>
    /\ UNCHANGED <<scriptArgs, repo, cwd, pkgMngr, packageSubdir, tagIdx, manifests,
                   finalTgz, outputDir>>
    /\ UNCHANGED <<auditVars, poolVars>>

\* buildPackage.js:234-236: the root script with the package name as argument
BuildRootWithName ==
    /\ pc = "buildRootWithName"
    /\ LET cmd == << <<pkgMngr>>, <<"run">>, <<"build">>, packageName >>
       IN /\ cmds' = Append(cmds, Cmd(cmd, cwd))
          /\ \/ /\ attemptBuildSucceeded(cmd, Null)
                /\ pc' = AfterBuild
             \/ /\ pc' = "buildRoot"
                /\ UNCHANGED <<buildResult, hasBuilt>>
    /\ UNCHANGED <<scriptArgs, repo, cwd, pkgMngr, packageSubdir, tagIdx, manifests,
                   finalTgz, thrown, outputDir>>
    /\ UNCHANGED <<auditVars, poolVars>>

\* buildPackage.js:240 and 243: the root script without arguments
BuildRoot ==
    /\ pc = "buildRoot"
    /\ LET cmd == << <<pkgMngr>>, <<"run">>, <<"build">> >>
       IN /\ cmds' = Append(cmds, Cmd(cmd, cwd))
          /\ \/ /\ attemptBuildSucceeded(cmd, Null)
                /\ pc' = AfterBuild
                /\ UNCHANGED thrown
             \/ /\ Throw(OtherError)
                /\ UNCHANGED <<buildResult, hasBuilt>>
    /\ UNCHANGED <<scriptArgs, repo, cwd, pkgMngr, packageSubdir, tagIdx, manifests,
                   finalTgz, outputDir>>
    /\ UNCHANGED <<auditVars, poolVars>>

\* buildPackage.js:249-252
MakePrepublish ==
    /\ pc = "makePrepublish"
    /\ LET cmd == << <<"make">>, <<"prepublish">> >>
       IN /\ cmds' = Append(cmds, Cmd(cmd, cwd))
          /\ \/ /\ buildResult' = SetKey(SetKey(SetKey(buildResult, "isBabel", TRUE),
                                     "successfulBuildCommand", cmd), "ranBuildFrom", Null)
                /\ hasBuilt' = TRUE
                /\ pc' = "chdir"
                /\ UNCHANGED thrown
             \/ /\ buildResult' = SetKey(buildResult, "isBabel", TRUE)
                /\ Throw(OtherError)
                /\ UNCHANGED hasBuilt
    /\ UNCHANGED <<scriptArgs, repo, cwd, pkgMngr, packageSubdir, tagIdx, manifests,
                   finalTgz, outputDir>>
    /\ UNCHANGED <<auditVars, poolVars>>

\* a test that looks at the root manifest only
useCleanPublishRootOnly ==
    manifests.root.devDepCleanPublish \/ manifests.root.cfgCleanPublish

\* buildPackage.js:275-279
useCleanPublish ==
    \/ manifests.root.devDepCleanPublish
    \/ (manifests.subdir.read /\ manifests.subdir.devDepCleanPublish)
    \/ manifests.root.cfgCleanPublish
    \/ (manifests.subdir.read /\ manifests.subdir.cfgCleanPublish)

\* a start directory that prefers the package subdirectory to the React one
packStartDirSubdirFirst(reactDirExists) ==
    IF packageSubdir # Null THEN packageSubdir
    ELSE IF gitUrl = ReactUrl
    THEN IF reactDirExists
         THEN cwd \o <<"/", "build", "/", "oss-stable-semver", "/">> \o packageName
         ELSE Null
    ELSE cwd

\* buildPackage.js:256-261: the directory packing starts from; Null when
\* process.chdir throws
packStartDir(reactDirExists) ==
    IF gitUrl = ReactUrl
    THEN IF reactDirExists
         THEN cwd \o <<"/", "build", "/", "oss-stable-semver", "/">> \o packageName
         ELSE Null
    ELSE IF packageSubdir # Null THEN packageSubdir ELSE cwd

\* buildPackage.js:254-281: the directory changes before packing
ChooseDir ==
    /\ pc = "chdir"
    /\ \E reactDirExists \in BOOLEAN, buildManifestExists \in BOOLEAN :
         LET start == packStartDir(reactDirExists)
             marked == IF gitUrl = ReactUrl
                       THEN SetKey(buildResult, "isReact", TRUE) ELSE buildResult
         IN IF start = Null
            THEN /\ buildResult' = marked
                 /\ Throw(OtherError)
                 /\ UNCHANGED cwd
            ELSE /\ cwd' = IF buildManifestExists
                           THEN start \o <<"/", "build">> ELSE start
                 /\ buildResult' =
                      SetKey(IF buildManifestExists
                             THEN SetKey(marked, "isPackedFromBuildDir", TRUE)
                             ELSE marked,
                             "usesCleanPublish", useCleanPublish)
                 /\ pc' = IF useCleanPublish THEN "cleanPublish" ELSE "pack"
                 /\ UNCHANGED thrown
    /\ UNCHANGED <<scriptArgs, repo, pkgMngr, packageSubdir, tagIdx, manifests,
                   hasBuilt, finalTgz, cmds, outputDir>>
    /\ UNCHANGED <<auditVars, poolVars>>

packFolderName == <<"cleanpublishoutput">>

\* buildPackage.js:291-299
CleanPublish ==
    /\ pc = "cleanPublish"
    /\ cmds' = Append(cmds, Cmd(<< <<"npx">>, <<"clean-publish">>,
                                   <<"--without-publish">>, <<"--temp-dir">>,
                                   packFolderName >>, cwd))
    /\ \/ /\ finalTgz' = packageName \o <<"-">> \o version \o <<".tgz">>
          /\ pc' = "tar"
          /\ UNCHANGED thrown
       \/ /\ Throw(OtherError)
          /\ UNCHANGED finalTgz
    /\ UNCHANGED <<scriptArgs, repo, cwd, pkgMngr, packageSubdir, tagIdx, manifests,
                   hasBuilt, buildResult, outputDir>>
    /\ UNCHANGED <<auditVars, poolVars>>

\* buildPackage.js:300
TarCleanPublish ==
    /\ pc = "tar"
    /\ cmds' = Append(cmds, Cmd(<< <<"tar">>, <<"-czf">>, finalTgz, packFolderName >>, cwd))
    /\ \/ /\ pc' = "copy"
          /\ UNCHANGED thrown
       \/ Throw(OtherError)
    /\ UNCHANGED <<scriptArgs, repo, cwd, pkgMngr, packageSubdir, tagIdx, manifests,
                   hasBuilt, finalTgz, buildResult, outputDir>>
    /\ UNCHANGED <<auditVars, poolVars>>

\* lines of the pack command's standard output
WroteLine(path) == [kind |-> "wrote", text |-> path]
GeneratedLine(path) == [kind |-> "generated", text |-> path]
TextLine(text) == [kind |-> "text", text |-> text]

PackLines ==
    { WroteLine(<<"/", "gitrepo", "/", "lodash-v1.0.0.tgz">>),
      GeneratedLine(<<"/", "gitrepo", "/", "package.tgz">>),
      TextLine(<<"lodash-1.0.0.tgz">>),
      TextLine(<<>>) }

PackStdouts ==
    UNION { [1..n -> PackLines] : n \in 0..MaxStdoutLines }

\* the text of a line as the shell prints it
LineText(line) ==
    IF line.kind = "wrote"
    THEN <<"success Wrote tarball to \"">> \o line.text \o <<"\".">>
    ELSE IF line.kind = "generated"
    THEN <<"Package archive generated in ">> \o line.text
    ELSE line.text

\* the capture of the first line of the given kind, Null without a match
FirstMatch(stdout, kind) ==
    LET hits == {i \in 1..Len(stdout) : stdout[i].kind = kind}
    IN IF hits = {} THEN Null
       ELSE stdout[CHOOSE i \in hits : \A j \in hits : i <= j].text

\* a parser that looks for the newer yarn's line first
yarnTarballNameGeneratedFirst(stdout) ==
    LET match == IF FirstMatch(stdout, "generated") # Null
                 THEN FirstMatch(stdout, "generated")
                 ELSE FirstMatch(stdout, "wrote")
    IN IF match = Null THEN Null ELSE Last(SplitSlash(match))

\* buildPackage.js:315-325: Null when neither pattern occurs
yarnTarballName(stdout) ==
    LET match == IF FirstMatch(stdout, "wrote") # Null
                 THEN FirstMatch(stdout, "wrote")
                 ELSE FirstMatch(stdout, "generated")
    IN IF match = Null THEN Null ELSE Last(SplitSlash(match))

\* String.prototype.trim() on the output: the line breaks at either end go,
\* and with them the empty lines there
RECURSIVE trim(_)
trim(stdout) ==
    IF stdout = <<>> THEN <<>>
    ELSE IF LineText(Head(stdout)) = <<>> THEN trim(Tail(stdout))
    ELSE IF LineText(Last(stdout)) = <<>> THEN trim(SubSeq(stdout, 1, Len(stdout) - 1))
    ELSE stdout

\* buildPackage.js:331: stdout.trim().split("\n").pop(); the empty string
\* splits into one empty line
npmTarballName(stdout) ==
    IF trim(stdout) = <<>> THEN <<>> ELSE LineText(Last(trim(stdout)))

\* what each manager's output can make of finalTgz, over every stdout
yarnTarballNames == { yarnTarballName(stdout) : stdout \in PackStdouts }
npmTarballNames == { npmTarballName(stdout) : stdout \in PackStdouts }

\* buildPackage.js:304-332
Pack ==
    /\ pc = "pack"
    /\ cmds' = Append(cmds, Cmd(<< <<pkgMngr>>, <<"pack">> >>, cwd))
    /\ \/ /\ Throw(OtherError)
          /\ UNCHANGED finalTgz
       \/ \E name \in (IF repo.yarnLock THEN yarnTarballNames ELSE npmTarballNames) :
            IF name = Null
            THEN /\ Throw(OtherError)
                 /\ UNCHANGED finalTgz
            ELSE /\ finalTgz' = name
                 /\ pc' = "copy"
                 /\ UNCHANGED thrown
    /\ UNCHANGED <<scriptArgs, repo, cwd, pkgMngr, packageSubdir, tagIdx, manifests,
                   hasBuilt, buildResult, outputDir>>
    /\ UNCHANGED <<auditVars, poolVars>>

\* an output directory that holds whatever directory the name asks for
CopyCanSucceedAnywhere(name) == name # <<>>

\* the output directory starts empty and holds no subdirectory, so a copy can
\* only land directly inside it
CopyCanSucceed(name) == name # <<>> /\ ~Includes(name, "/")

\* the file name recorded before the copy is awaited
CopyFileRecordedEarly ==
    /\ pc = "copy"
    /\ buildResult' = SetKey(buildResult, "tarballFilename", finalTgz)
    /\ \/ /\ CopyCanSucceed(finalTgz)
          /\ outputDir' = outputDir \cup {finalTgz}
          /\ pc' = "write"
          /\ UNCHANGED thrown
       \/ /\ Throw(OtherError)
          /\ UNCHANGED outputDir
    /\ UNCHANGED <<scriptArgs, repo, cwd, pkgMngr, packageSubdir, tagIdx, manifests,
                   hasBuilt, finalTgz, cmds>>
    /\ UNCHANGED <<auditVars, poolVars>>

\* buildPackage.js:336-338
CopyFile ==
    /\ pc = "copy"
    /\ \/ /\ CopyCanSucceed(finalTgz)
          /\ outputDir' = outputDir \cup {finalTgz}
          /\ buildResult' = SetKey(buildResult, "tarballFilename", finalTgz)
          /\ pc' = "write"
          /\ UNCHANGED thrown
       \/ /\ Throw(OtherError)
          /\ UNCHANGED <<outputDir, buildResult>>
    /\ UNCHANGED <<scriptArgs, repo, cwd, pkgMngr, packageSubdir, tagIdx, manifests,
                   hasBuilt, finalTgz, cmds>>
    /\ UNCHANGED <<auditVars, poolVars>>

\* a handler that records only BuildFailed and lets anything else escape
CatchAllBuildFailedOnly ==
    /\ pc = "catch"
    /\ IF thrown.kind = "BuildFailed"
       THEN /\ buildResult' = SetKey(buildResult, "errorCode", thrown.errorCode)
            /\ pc' = "write"
       ELSE /\ pc' = "done"
            /\ UNCHANGED buildResult
    /\ UNCHANGED <<scriptArgs, repo, cwd, pkgMngr, packageSubdir, tagIdx, manifests,
                   hasBuilt, finalTgz, thrown, cmds, outputDir>>
    /\ UNCHANGED <<auditVars, poolVars>>

\* buildPackage.js:339-354
CatchAll ==
    /\ pc = "catch"
    /\ buildResult' = SetKey(buildResult, "errorCode",
                             IF thrown.kind = "BuildFailed" THEN thrown.errorCode
                             ELSE "unexpected-error")
    /\ pc' = "write"
    /\ UNCHANGED <<scriptArgs, repo, cwd, pkgMngr, packageSubdir, tagIdx, manifests,
                   hasBuilt, finalTgz, thrown, cmds, outputDir>>
    /\ UNCHANGED <<auditVars, poolVars>>

\* buildPackage.js:356-359
WriteBuildResult ==
    /\ pc = "write"
    /\ outputDir' = outputDir \cup {<<"buildResult.json">>}
    /\ pc' = "done"
    /\ UNCHANGED <<scriptArgs, repo, cwd, pkgMngr, packageSubdir, tagIdx, manifests,
                   hasBuilt, finalTgz, thrown, buildResult, cmds>>
    /\ UNCHANGED <<auditVars, poolVars>>

ResolverNext ==
    \/ Clone \/ TypesChdir \/ Checkout \/ NoTagMatch \/ ReadManifests
    \/ InstallRoot \/ InstallSubdir \/ BuildSubdir \/ BuildRootWithName
    \/ BuildRoot \/ MakePrepublish \/ ChooseDir \/ CleanPublish
    \/ TarCleanPublish \/ Pack \/ CopyFile \/ CatchAll \/ WriteBuildResult

SpecResolver == ResolverInit /\ [][ResolverNext]_vars

TypeOKResolver == pc \in {"clone", "typesChdir", "checkout", "readManifests",
    "installRoot", "installSubdir", "buildSubdir", "buildRootWithName", "buildRoot",
    "makePrepublish", "chdir", "cleanPublish", "tar", "pack", "copy", "catch",
    "write", "done"}

-----------------------------------------------------------------------------
(* Properties of the build script *)

Cloned == pc # "clone" /\ thrown.errorCode # "clone failed"

Archives == outputDir \ {<<"buildResult.json">>}

\* the names and versions the script is started with
NamesAndVersions == { <<r[1], TheVersion>> : r \in Requests }

candidateTagSets == [a \in NamesAndVersions |-> SeqToSet(possibleTagNames(a[1], a[2]))]

CandidateTags == candidateTagSets[<<packageName, version>>]

\* the tag names handed to git checkout, in order
IsCheckout(c) == c.command[2] = <<"checkout">>

CheckedOut ==
    LET sel == SelectSeq(cmds, IsCheckout)
    IN [k \in 1..Len(sel) |-> sel[k].command[3]]

\* C4: a cloned repository of a non-@types package that has none of the
\* candidate tags ends with the error code "no tag match", and no install,
\* build script, make, clean-publish, tar or pack command is ever run and no
\* archive reaches the output directory.
C4_NoTagMatch ==
    (Cloned /\ ~IsTypesPackage(packageName) /\ repo.tags \cap CandidateTags = {})
        => /\ ~RanOp(<<"install">>) /\ ~RanOp(<<"build">>) /\ ~RanOp(<<"pack">>)
           /\ ~RanOp(<<"make">>) /\ ~RanOp(<<"npx">>) /\ ~RanOp(<<"tar">>)
           /\ Archives = {}
           /\ pc \in {"checkout", "catch", "write", "done"}
           /\ pc \in {"write", "done"}
                => HasKey(buildResult, "errorCode")
                   /\ buildResult["errorCode"] = "no tag match"

C4_Witness ==
    /\ pc = "done" /\ ~IsTypesPackage(packageName)
    /\ repo.tags = {<<"latest">>}
    /\ Len(CheckedOut) = Len(possibleTagNames(packageName, version))
    /\ HasKey(buildResult, "errorCode") /\ buildResult["errorCode"] = "no tag match"

\* C6: a run that reached its end left exactly one outcome: an archive in
\* the output directory whose name is recorded as tarballFilename and no
\* errorCode, or an errorCode and no archive.
C6_ExactlyOneOutcome ==
    pc = "done" =>
        \/ /\ HasKey(buildResult, "tarballFilename")
           /\ ~HasKey(buildResult, "errorCode")
           /\ Archives = {buildResult["tarballFilename"]}
        \/ /\ HasKey(buildResult, "errorCode")
           /\ ~HasKey(buildResult, "tarballFilename")
           /\ Archives = {}

C6_Witness ==
    /\ pc = "done"
    /\ HasKey(buildResult, "tarballFilename")
    /\ buildResult["tarballFilename"] \in outputDir
    /\ <<"buildResult.json">> \in outputDir

\* the order of candidate tags as the specification lists it
claimedTagOrder(name, ver) == possibleTagNamesVersionFirst(name, ver)

\* the order of candidate tags the build script uses
amendedTagOrder(name, ver) ==
    LET subname == Last(SplitSlash(name))
        named(n) == << n \o <<"-">> \o ver, n \o <<"-", "v">> \o ver,
                       n \o <<"@">> \o ver, n \o <<"/">> \o ver >>
    IN (IF Includes(name, "/") THEN named(subname) ELSE <<>>)
         \o named(name) \o << ver, <<"v">> \o ver >>

amendedTagOrders == [a \in NamesAndVersions |-> amendedTagOrder(a[1], a[2])]

\* C9 as stated: the tag checked out is the first existing tag in the order
\* <version>, v<version>, <name>-<version>, ...; with both <version> and
\* <name>-<version> present, <version> is checked out.
C9_Original ==
    HasKey(buildResult, "tag")
        => buildResult["tag"] = FirstIn(claimedTagOrder(packageName, version), repo.tags)

\* C9 amended: the tag checked out is the first existing tag in the order
\* <name>-<version>, <name>-v<version>, <name>@<version>, <name>/<version>,
\* <version>, v<version>, preceded for a scoped name by the same four named
\* variants built from the subname; the checkouts attempted are exactly the
\* candidates up to and including that tag.
C9_FirstExistingTag ==
    LET order == amendedTagOrders[<<packageName, version>>]
        tried == CheckedOut
    IN /\ HasKey(buildResult, "tag")
            => /\ buildResult["tag"] = FirstIn(order, repo.tags)
               /\ Last(tried) = buildResult["tag"]
       /\ Len(tried) <= Len(order)
       /\ tried = SubSeq(order, 1, Len(tried))
       /\ \A k \in 1..(Len(tried) - 1) : tried[k] \notin repo.tags

C9_Witness ==
    /\ pc = "done"
    /\ repo.tags = {version, packageName \o <<"-">> \o version}
    /\ HasKey(buildResult, "tag")
    /\ buildResult["tag"] = packageName \o <<"-">> \o version

\* the priority order of package subdirectories as the specification lists it
subdirPriority(name) ==
    LET parts == SplitSlash(name)
        scope == ReplaceFirst(parts[1], <<"@">>, <<>>)
        under(d) == << repoRoot \o <<"/">> \o d,
                       repoRoot \o <<"/", "packages", "/">> \o d >>
    IN under(name)
         \o (IF Includes(name, "/")
             THEN under(parts[2]) \o under(scope \o <<"/">> \o parts[2])
                    \o under(scope \o <<"-">> \o parts[2])
             ELSE <<>>)

\* the package names the script is started with
RequestNames == { r[1] : r \in Requests }
ScopedRequestNames == { n \in RequestNames : Includes(n, "/") }

subdirPriorities == [n \in RequestNames |-> subdirPriority(n)]

\* C10: the package subdirectory is the first candidate, in priority order,
\* that holds a package.json, and "no subdirectory" when none does; it is
\* what buildResult.json records.
C10_FirstSubdir ==
    Cloned =>
        /\ packageSubdir = FirstIn(subdirPriorities[packageName], repo.manifestDirs)
        /\ buildResult["subdir"] = packageSubdir

C10_Witness ==
    /\ pc = "done"
    /\ Cardinality(repo.manifestDirs) = 2
    /\ packageSubdir = subdirPriority(packageName)[2]
    /\ \E i \in 3..Len(subdirPriority(packageName)) :
          subdirPriority(packageName)[i] \in repo.manifestDirs

\* packages/<scope>-<sub> below the clone, for a scoped name @scope/sub
hyphenDir(name) ==
    LET parts == SplitSlash(name)
    IN repoRoot \o <<"/", "packages", "/">> \o Tail(parts[1]) \o <<"-">> \o parts[2]

IsScoped(name) == Includes(name, "/")

\* the candidates tried before packages/<scope>-<sub>
EarlierThanHyphenDir(name) ==
    LET order == subdirPriority(name)
    IN { order[i] : i \in 1..(Len(order) - 1) }

hyphenDirs == [n \in ScopedRequestNames |-> hyphenDir(n)]
earlierThanHyphenDirs == [n \in ScopedRequestNames |-> EarlierThanHyphenDir(n)]

\* a clone whose only manifest is packages/<scope>-<sub> resolves to it
HyphenDirAloneIsFound ==
    \A n \in ScopedRequestNames : findPackageSubdir(n, {hyphenDir(n)}) = hyphenDir(n)

\* C11 as claimed: for a scoped name, whenever packages/<scope>-<sub> holds
\* a package.json the chosen subdirectory is packages/<scope>-<sub>
C11_Original ==
    (Cloned /\ IsScoped(packageName) /\ hyphenDir(packageName) \in repo.manifestDirs) =>
        packageSubdir = hyphenDir(packageName)

\* C11: for a scoped name, when packages/<scope>-<sub> holds a package.json
\* the search finds a subdirectory, and it is packages/<scope>-<sub> when no
\* candidate earlier in the order holds a package.json as well; a clone
\* whose only manifest is that one resolves to it
C11_ScopedHyphenSubdir ==
    /\ (Cloned /\ IsScoped(packageName) /\ hyphenDirs[packageName] \in repo.manifestDirs) =>
          /\ packageSubdir # Null
          /\ buildResult["subdir"] = packageSubdir
          /\ (repo.manifestDirs \cap earlierThanHyphenDirs[packageName] = {}) =>
                packageSubdir = hyphenDirs[packageName]
    /\ (IsScoped(packageName) /\ pc = "done") => HyphenDirAloneIsFound

C11_Witness ==
    /\ pc = "done"
    /\ packageName = BabelTypes
    /\ repo.manifestDirs = {hyphenDir(BabelTypes)}
    /\ packageSubdir = repoRoot \o <<"/", "packages", "/", "babel", "-", "types">>
    /\ HasKey(buildResult, "tarballFilename")

\* types/<x> below the clone, for a package named @types/<x>
typesDir(name) == repoRoot \o <<"/">> \o Tail(name)

\* the commands that produce the archive
IsPackCommand(c) ==
    c.command[2] \in { <<"pack">>, <<"clean-publish">> }

\* C12 as claimed: for a package named @types/<x> no tag is checked out,
\* nothing is installed, no build script is invoked, the failure "no tag
\* match" never occurs, and the archive is packed from types/<x>
C12_Original ==
    IsTypesPackage(packageName) =>
        /\ \A i \in 1..Len(cmds) :
              /\ cmds[i].command[2] \notin { <<"checkout">>, <<"install">>, <<"run">> }
              /\ IsPackCommand(cmds[i]) => cmds[i].cwd = typesDir(packageName)
        /\ thrown.errorCode # "no tag match"

\* git clone exited nonzero: the script went on without entering gitrepo
CloneFailed == pc # "clone" /\ cwd = <<"/">>

\* C16: when git clone fails the script throws BuildFailed("clone failed")
\* after that one clone command, runs no other command, and ends with
\* buildResult.json holding only the error code "clone failed" and no archive
C16_CloneFailed ==
    CloneFailed =>
        /\ cmds = << Cmd(<< <<"git">>, <<"clone">> >>, <<"/">>) >>
        /\ thrown = BuildFailed("clone failed")
        /\ pc \in {"catch", "write", "done"}
        /\ Archives = {}
        /\ pc \in {"write", "done"} =>
              buildResult = SetKey(EmptyObject, "errorCode", "clone failed")
        /\ pc = "done" => <<"buildResult.json">> \in outputDir

C16_Witness ==
    /\ pc = "done"
    /\ CloneFailed
    /\ Len(cmds) = 1
    /\ buildResult["errorCode"] = "clone failed"
    /\ outputDir = {<<"buildResult.json">>}

\* a step at which an exception reaches the top-level catch
Raises == pc # "catch" /\ pc' = "catch"

\* C17: an exception raised at any step but the clone and the exhausted
\* checkout loop is not a BuildFailed; the top-level catch turns it into the
\* error code "unexpected-error", and buildResult.json is then written with
\* that code
C17_UnexpectedError ==
    [][ /\ (Raises /\ pc \notin {"clone", "checkout"}) => thrown' = OtherError
        /\ (pc = "catch" /\ thrown = OtherError) =>
              /\ pc' = "write"
              /\ buildResult' = SetKey(buildResult, "errorCode", "unexpected-error")
        /\ (pc = "write" /\ thrown = OtherError) =>
              /\ pc' = "done"
              /\ buildResult' = buildResult
              /\ buildResult["errorCode"] = "unexpected-error"
              /\ <<"buildResult.json">> \in outputDir' ]_vars

\* a failing install, recorded as unexpected-error
C17_Witness ==
    /\ pc = "done"
    /\ thrown = OtherError
    /\ cmds[Len(cmds)].command[2] = <<"install">>
    /\ buildResult["errorCode"] = "unexpected-error"
    /\ <<"buildResult.json">> \in outputDir

\* the invocations of a build script, in order
IsBuildRun(c) == c.command[2] = <<"run">>
BuildRuns == SelectSeq(cmds, IsBuildRun)

SubdirBuild == Cmd(<< <<pkgMngr>>, <<"run">>, <<"build">> >>, packageSubdir)

SubdirHasBuildScript == packageSubdir # Null /\ HasBuildScript(manifests.subdir)

\* the build recorded as successful is the one run in the subdirectory
SubdirBuildSucceeded ==
    /\ HasKey(buildResult, "ranBuildFrom")
    /\ buildResult["ranBuildFrom"] = packageSubdir
    /\ buildResult["successfulBuildCommand"] = SubdirBuild.command

\* C19: when a package subdirectory was found and its manifest declares a
\* build script, the first build-script invocation is `<manager> run build`
\* in that subdirectory; every later one is the root script, run from the
\* root, and there is one only if the root manifest declares a build script
\* and the subdirectory build did not succeed; once the subdirectory build
\* has failed and the root manifest declares a build script, the root script
\* is the next thing invoked
C19_SubdirBuildFirst ==
    SubdirHasBuildScript =>
      LET runs == BuildRuns IN
        /\ runs # <<>> => runs[1] = SubdirBuild
        /\ \A i \in 2..Len(runs) :
              /\ runs[i].cwd = repoRoot
              /\ HasBuildScript(manifests.root)
              /\ ~SubdirBuildSucceeded
        /\ (Len(runs) = 1 /\ HasBuildScript(manifests.root) /\ ~hasBuilt) =>
              pc = "buildRootWithName"
        /\ (Len(runs) = 1 /\ hasBuilt /\ gitUrl # BabelUrl) =>
              SubdirBuildSucceeded /\ pc # "buildRootWithName"

\* the subdirectory build failed, the root script was run, an archive came out
C19_Witness ==
    /\ pc = "done"
    /\ SubdirHasBuildScript
    /\ Len(BuildRuns) >= 2
    /\ BuildRuns[1] = SubdirBuild
    /\ BuildRuns[2].cwd = repoRoot
    /\ HasKey(buildResult, "tarballFilename")

\* the subdirectory build was the only build-script invocation and nothing
\* has built successfully: it exited nonzero
SubdirBuildFailedAlone ==
    /\ SubdirHasBuildScript
    /\ BuildRuns = <<SubdirBuild>>
    /\ ~hasBuilt

\* C20 as claimed: when the subdirectory build exits nonzero and the root
\* manifest declares no build script, the script fails outright: no pack
\* command is run and no archive is written
C20_Original ==
    (SubdirBuildFailedAlone /\ ~HasBuildScript(manifests.root)) =>
        /\ \A i \in 1..Len(cmds) : ~IsPackCommand(cmds[i])
        /\ Archives = {}
        /\ ~HasKey(buildResult, "tarballFilename")
        /\ pc = "done" => HasKey(buildResult, "errorCode")

\* the invocations of the root build script, in order
IsRootBuildRun(c) == IsBuildRun(c) /\ c.cwd = repoRoot
RootBuildRuns == SelectSeq(cmds, IsRootBuildRun)

RootBuildWithName ==
    Cmd(<< <<pkgMngr>>, <<"run">>, <<"build">>, packageName >>, repoRoot)
RootBuildNoArgs == Cmd(<< <<pkgMngr>>, <<"run">>, <<"build">> >>, repoRoot)

\* the run is past the install and build block without an exception
PastBuildStep ==
    /\ ~IsTypesPackage(packageName)
    /\ \/ pc \in {"makePrepublish", "chdir", "cleanPublish", "tar", "pack", "copy"}
       \/ RanOp(<<"prepublish">>) \/ \E i \in 1..Len(cmds) : IsPackCommand(cmds[i])

\* C21: when the root manifest declares a build script, the root script is
\* invoked with the package name first if a subdirectory was found, and
\* once more without arguments only when that invocation failed; without a
\* subdirectory it is invoked once, without arguments; a run that gets past
\* the build step has a successful build, which is the subdirectory's when
\* the root script was not invoked; and when the invocation without
\* arguments fails the script throws and packs nothing
C21_RootBuildAttempts ==
    HasBuildScript(manifests.root) =>
      LET runs == RootBuildRuns IN
        /\ runs \in
              IF packageSubdir # Null
              THEN { <<>>, <<RootBuildWithName>>, <<RootBuildWithName, RootBuildNoArgs>> }
              ELSE { <<>>, <<RootBuildNoArgs>> }
        /\ (runs = <<RootBuildWithName>> /\ ~hasBuilt) =>
              pc = "buildRoot" /\ thrown = NoException
        /\ runs = <<RootBuildWithName, RootBuildNoArgs>> =>
              ~(/\ HasKey(buildResult, "successfulBuildCommand")
                /\ buildResult["successfulBuildCommand"] = RootBuildWithName.command)
        /\ PastBuildStep =>
              /\ hasBuilt
              /\ runs = <<>> => BuildRuns = <<SubdirBuild>>
        /\ (runs # <<>> /\ Last(runs) = RootBuildNoArgs /\ ~hasBuilt) =>
              /\ pc \in {"catch", "write", "done"}
              /\ thrown = OtherError
              /\ \A i \in 1..Len(cmds) : ~IsPackCommand(cmds[i])
              /\ Archives = {}

\* the root script failed with the package name, succeeded without
\* arguments, and an archive came out
C21_Witness ==
    /\ pc = "done"
    /\ packageSubdir # Null
    /\ RootBuildRuns = <<RootBuildWithName, RootBuildNoArgs>>
    /\ HasKey(buildResult, "tarballFilename")
    /\ buildResult["successfulBuildCommand"] = RootBuildNoArgs.command

\* both manifests were read and neither declares a build script
NoBuildScripts ==
    manifests.root.read /\ ~manifests.root.build /\ ~manifests.subdir.build

IsInstall(c) == c.command[2] = <<"install">>

\* every install of the run has been issued and nothing was thrown
InstallsSucceeded ==
    /\ Len(SelectSeq(cmds, IsInstall)) = IF packageSubdir # Null THEN 2 ELSE 1
    /\ thrown = NoException

\* C22: when neither manifest declares a build script no build script is
\* invoked and no build is recorded, and a run whose installs succeeded is
\* at the steps that follow the build step: it has not failed
C22_NoBuildScript ==
    NoBuildScripts =>
        /\ BuildRuns = <<>>
        /\ pc \notin {"buildSubdir", "buildRootWithName", "buildRoot"}
        /\ hasBuilt => RanOp(<<"prepublish">>)
        /\ InstallsSucceeded =>
              /\ pc \in {"makePrepublish", "chdir", "cleanPublish", "tar", "pack",
                         "copy", "write", "done"}
              /\ ~HasKey(buildResult, "errorCode")

\* an archive from a package with a subdirectory and no build script at all
C22_Witness ==
    /\ pc = "done"
    /\ NoBuildScripts
    /\ packageSubdir # Null
    /\ InstallsSucceeded
    /\ BuildRuns = <<>>
    /\ \E i \in 1..Len(cmds) : IsPackCommand(cmds[i])
    /\ HasKey(buildResult, "tarballFilename")

\* the commands that go through the package manager
IsManagerCommand(c) == c.command[2] \in { <<"install">>, <<"run">>, <<"pack">> }

\* C23: once the clone is there, the manager is yarn exactly when yarn.lock
\* exists, pnpm exactly when it does not and pnpm-lock.yaml exists, npm
\* otherwise; it is the one recorded in buildResult and the program of every
\* install, build-script and pack command
C23_PackageManager ==
    Cloned =>
        /\ pkgMngr = "yarn" <=> repo.yarnLock
        /\ pkgMngr = "pnpm" <=> (~repo.yarnLock /\ repo.pnpmLock)
        /\ pkgMngr = "npm" <=> (~repo.yarnLock /\ ~repo.pnpmLock)
        /\ buildResult["packageManager"] = pkgMngr
        /\ \A i \in 1..Len(cmds) :
              IsManagerCommand(cmds[i]) => cmds[i].command[1] = <<pkgMngr>>

\* both lockfiles, and yarn installed, built and packed
C23_Witness ==
    /\ pc = "done"
    /\ repo.yarnLock /\ repo.pnpmLock
    /\ Ran(<< <<"yarn">>, <<"install">> >>)
    /\ Ran(<< <<"yarn">>, <<"run">>, <<"build">> >>)
    /\ Ran(<< <<"yarn">>, <<"pack">> >>)
    /\ HasKey(buildResult, "tarballFilename")

IsMake(c) == c.command = << <<"make">>, <<"prepublish">> >>

\* positions in cmds of the commands satisfying a test
MakeAt == { i \in 1..Len(cmds) : IsMake(cmds[i]) }
GenericBuildAt == { i \in 1..Len(cmds) : IsInstall(cmds[i]) \/ IsBuildRun(cmds[i]) }
PackAt == { i \in 1..Len(cmds) : IsPackCommand(cmds[i]) }

\* the run has left the install and build block and the Babel step behind
PastBabelStep ==
    \/ pc \in {"chdir", "cleanPublish", "tar", "pack", "copy"}
    \/ PackAt # {}

\* C25: for the repository URL https://github.com/babel/babel.git, `make
\* prepublish` is run at most once, after every install and build-script
\* command and before any pack command, and it has been run in every run
\* that is past that point, whether or not a build script ran or succeeded;
\* for any other URL it is never run
C25_BabelMake ==
    LET makes == MakeAt IN
    IF gitUrl = BabelUrl
    THEN /\ Cardinality(makes) <= 1
         /\ \A m \in makes :
               /\ \A g \in GenericBuildAt : g < m
               /\ \A p \in PackAt : m < p
         /\ PastBabelStep => Cardinality(makes) = 1
         /\ pc = "makePrepublish" => makes = {} /\ thrown = NoException
    ELSE /\ makes = {}
         /\ pc # "makePrepublish"
         /\ ~HasKey(buildResult, "isBabel")

\* make prepublish after the subdirectory build, with no root build script,
\* and an archive
C25_Witness ==
    /\ pc = "done"
    /\ gitUrl = BabelUrl
    /\ BuildRuns = <<SubdirBuild>>
    /\ HasKey(buildResult, "tarballFilename")
    /\ buildResult["successfulBuildCommand"] = << <<"make">>, <<"prepublish">> >>
    /\ Cardinality(MakeAt) = 1
    /\ ~HasBuildScript(manifests.root)

\* a flag of buildResult that was set
Flag(key) == HasKey(buildResult, key) /\ buildResult[key] = TRUE

\* the directory the script is in once the tag is checked out or types/<x>
\* is entered
DirBeforePacking ==
    IF IsTypesPackage(packageName) THEN typesDir(packageName) ELSE repoRoot

\* the directory packing starts from, before the look for ./build/package.json
ExpectedPackBase ==
    IF gitUrl = ReactUrl
    THEN repoRoot \o <<"/", "build", "/", "oss-stable-semver", "/">> \o packageName
    ELSE IF packageSubdir # Null THEN packageSubdir
    ELSE DirBeforePacking

\* the directory changes before packing are done
DirChosen == HasKey(buildResult, "usesCleanPublish")

\* C26: once the directory is chosen it is build/oss-stable-semver/<name>
\* below the repository root for the React URL, else the package
\* subdirectory when one was found, else the directory the script was in,
\* with /build appended exactly when build/package.json was found there;
\* every pack, clean-publish and tar command runs in it
C26_PackDirectory ==
    DirChosen =>
        /\ cwd = IF Flag("isPackedFromBuildDir")
                 THEN ExpectedPackBase \o <<"/", "build">>
                 ELSE ExpectedPackBase
        /\ Flag("isReact") <=> gitUrl = ReactUrl
        /\ \A i \in 1..Len(cmds) :
              (IsPackCommand(cmds[i]) \/ cmds[i].command[2] = <<"-czf">>) =>
                  cmds[i].cwd = cwd

\* a React package with a package subdirectory, packed from the React
\* directory
C26_Witness ==
    /\ pc = "done"
    /\ gitUrl = ReactUrl
    /\ packageSubdir # Null
    /\ ~Flag("isPackedFromBuildDir")
    /\ Last(cmds) = Cmd(<< <<pkgMngr>>, <<"pack">> >>,
                        <<"/", "gitrepo", "/", "build", "/", "oss-stable-semver",
                          "/", "lodash">>)
    /\ HasKey(buildResult, "tarballFilename")

\* a manifest that was read carries a clean-publish marker
HasCleanPublishMarker(m) == m.read /\ (m.devDepCleanPublish \/ m.cfgCleanPublish)

CleanPublishMarked ==
    HasCleanPublishMarker(manifests.root) \/ HasCleanPublishMarker(manifests.subdir)

CleanPublishCommand ==
    Cmd(<< <<"npx">>, <<"clean-publish">>, <<"--without-publish">>, <<"--temp-dir">>,
           <<"cleanpublishoutput">> >>, cwd)

CleanPublishTgz == packageName \o <<"-">> \o version \o <<".tgz">>

TarCommand ==
    Cmd(<< <<"tar">>, <<"-czf">>, CleanPublishTgz, <<"cleanpublishoutput">> >>, cwd)

NativePackCommand == Cmd(<< <<pkgMngr>>, <<"pack">> >>, cwd)

\* the packing commands of the run, in order
IsPackingCommand(c) == c.command[2] \in { <<"pack">>, <<"clean-publish">>, <<"-czf">> }
PackingCommands == SelectSeq(cmds, IsPackingCommand)

\* C27: the clean-publish path is taken exactly when the root or the
\* subdirectory manifest lists clean-publish in devDependencies or has a
\* clean-publish block; on it the packing commands are `npx clean-publish
\* --without-publish --temp-dir cleanpublishoutput` and then `tar -czf
\* <packageName>-<version>.tgz cleanpublishoutput`, never the manager's
\* pack, and an archive that is emitted has that name; off it the one
\* packing command is `<manager> pack`
C27_CleanPublish ==
    DirChosen =>
      LET packing == PackingCommands IN
        /\ buildResult["usesCleanPublish"] = CleanPublishMarked
        /\ IF CleanPublishMarked
           THEN /\ packing \in
                      { <<>>, <<CleanPublishCommand>>, <<CleanPublishCommand, TarCommand>> }
                /\ Archives \subseteq {CleanPublishTgz}
                /\ HasKey(buildResult, "tarballFilename") =>
                      /\ buildResult["tarballFilename"] = CleanPublishTgz
                      /\ Len(packing) = 2
                      /\ Archives = {CleanPublishTgz}
                /\ pc \notin {"pack"}
           ELSE /\ packing \in { <<>>, <<NativePackCommand>> }
                /\ pc \notin {"cleanPublish", "tar"}
                /\ HasKey(buildResult, "tarballFilename") =>
                      packing = <<NativePackCommand>>

\* the marker is in the subdirectory manifest only; the archive of
\* clean-publish's output is emitted
C27_Witness ==
    /\ pc = "done"
    /\ ~HasCleanPublishMarker(manifests.root)
    /\ manifests.subdir.cfgCleanPublish
    /\ PackingCommands = <<CleanPublishCommand, TarCommand>>
    /\ Archives = {<<"lodash", "-", "1.0.0", ".tgz">>}
    /\ buildResult["tarballFilename"] = <<"lodash", "-", "1.0.0", ".tgz">>


\* what follows the last "/" of a path
AfterLastSlash(path) ==
    LET slashes == { i \in 1..Len(path) : path[i] = "/" }
        k == IF slashes = {} THEN 0
             ELSE CHOOSE i \in slashes : \A j \in slashes : j <= i
    IN SubSeq(path, k + 1, Len(path))

\* the paths that the lines of one kind report, in order
PathsOf(stdout, kind) ==
    LET OfKind(line) == line.kind = kind
        lines == SelectSeq(stdout, OfKind)
    IN [i \in 1..Len(lines) |-> lines[i].text]

\* the lines of an output that are not empty, as printed
NonEmptyLines(stdout) ==
    LET Printed(line) == LineText(line) # <<>>
        lines == SelectSeq(stdout, Printed)
    IN [i \in 1..Len(lines) |-> LineText(lines[i])]

\* the file names a native pack of the detected manager can yield
NativeNames ==
    IF repo.yarnLock
    THEN { AfterLastSlash(l.text) : l \in { x \in PackLines : x.kind # "text" } }
    ELSE { LineText(l) : l \in PackLines }

\* the two parsers against what the output says, on every output
YarnNameIsFirstPath ==
    \A stdout \in PackStdouts :
       LET wrote == PathsOf(stdout, "wrote")
           generated == PathsOf(stdout, "generated")
       IN yarnTarballName(stdout) =
             IF wrote # <<>> THEN AfterLastSlash(wrote[1])
             ELSE IF generated # <<>> THEN AfterLastSlash(generated[1])
             ELSE Null

NpmNameIsLastLine ==
    \A stdout \in PackStdouts :
       LET lines == NonEmptyLines(stdout)
       IN lines # <<>> => npmTarballName(stdout) = Last(lines)

\* C28: from yarn's output the archive name is the last path component of
\* the path in the first 'success Wrote tarball to "<path>".' line, without
\* such a line of the path in the first 'Package archive generated in
\* <path>' line, and without either the Resolver fails and emits no
\* archive; from npm's and pnpm's output it is the last non-empty line
\* (the parsers are compared on every output the pack about to run can print)
C28_PackOutput ==
    /\ pc = "pack" => IF repo.yarnLock THEN YarnNameIsFirstPath ELSE NpmNameIsLastLine
    /\ (PackingCommands = <<NativePackCommand>> /\ pc \notin {"pack", "catch"}) =>
          IF finalTgz = Null
          THEN /\ buildResult["errorCode"] = "unexpected-error"
               /\ ~HasKey(buildResult, "tarballFilename")
               /\ Archives = {}
          ELSE /\ Archives \subseteq {finalTgz}
               /\ HasKey(buildResult, "tarballFilename") =>
                     /\ buildResult["tarballFilename"] = finalTgz
                     /\ finalTgz \in NativeNames
                     /\ Archives = {finalTgz}

\* yarn printed the path of the archive and its last component was emitted
C28_Witness ==
    /\ pc = "done"
    /\ repo.yarnLock
    /\ PackingCommands = <<NativePackCommand>>
    /\ finalTgz = <<"lodash-v1.0.0.tgz">>
    /\ buildResult["tarballFilename"] = finalTgz
    /\ Archives = {finalTgz}
    /\ yarnTarballName(<< GeneratedLine(<<"/", "gitrepo", "/", "package.tgz">>),
                          WroteLine(<<"/", "gitrepo", "/", "lodash-v1.0.0.tgz">>) >>)
         = finalTgz
    /\ npmTarballName(<< TextLine(<<"lodash-1.0.0.tgz">>), TextLine(<<>>) >>)
         = <<"lodash-1.0.0.tgz">>


\* the run recorded an archive
RecordedArchive == HasKey(buildResult, "tarballFilename")

-----------------------------------------------------------------------------
(* The extracted trees and `diff -ur` (auditPackage, the comparison) *)

MaxChanges == 2   \* how many entries differ between the two trees at most

\* a tree maps the path of each file below the top-level directory, a
\* sequence of names, to its content
TreeFiles ==
    { <<"CHANGELOG.md">>, <<".npmignore">>, <<"tsconfig.tsbuildinfo">>,
      <<"package.json">>, <<"README.md">>, <<"LICENSE">>, <<"index.d.ts">>,
      <<"lib", "index.js">>, <<"lib", "CHANGELOG.md">>,
      <<"lib", "tsconfig.tsbuildinfo">>, <<"docs", "guide.md">> }

\* lib/index.js is in every tree, so the directory lib is on both sides
VaryingFiles == TreeFiles \ {<<"lib", "index.js">>}

\* how a file differs: same on both sides, on one side only, or modified
Deltas ==
    { d \in [VaryingFiles -> {"same", "build-only", "published-only", "change"}] :
        Cardinality({f \in VaryingFiles : d[f] # "same"}) <= MaxChanges }

builtTreeOf(d) ==
    [f \in {f \in TreeFiles : f \notin VaryingFiles \/ d[f] # "published-only"} |-> 1]

publishedTreeOf(d) ==
    [f \in {f \in TreeFiles : f \notin VaryingFiles \/ d[f] # "build-only"} |->
        IF f \in VaryingFiles /\ d[f] = "change" THEN 2 ELSE 1]

TreePairs == { [built |-> builtTreeOf(d), published |-> publishedTreeOf(d)] : d \in Deltas }

\* the path string of a sequence of names below a directory string
RECURSIVE PathString(_, _)
PathString(dir, names) ==
    IF names = <<>> THEN dir
    ELSE PathString(dir \o <<"/", names[1]>>, Tail(names))

\* the names directly inside directory d of a tree
NamesIn(tree, d) ==
    { f[Len(d) + 1] : f \in {g \in DOMAIN tree : Len(g) > Len(d) /\ SubSeq(g, 1, Len(d)) = d} }

OnlyInLine(folder, filename) ==
    [kind |-> "onlyIn", folder |-> folder, filename |-> filename, newFileName |-> <<>>]

PatchLine(newFileName) ==
    [kind |-> "patch", folder |-> <<>>, filename |-> <<>>, newFileName |-> newFileName]

\* what `diff -ur a b` prints: an "Only in" notice for each name on one side
\* only (a directory is reported, not descended into), a patch for each file
\* on both sides whose content differs, and the same below each common
\* directory
RECURSIVE diffLines(_, _, _, _, _)
diffLines(aRoot, bRoot, aTree, bTree, d) ==
    LET aNames == NamesIn(aTree, d)
        bNames == NamesIn(bTree, d)
        isFile(tree, n) == (d \o <<n>>) \in DOMAIN tree
    IN { OnlyInLine(PathString(aRoot, d), <<n>>) : n \in aNames \ bNames }
       \cup { OnlyInLine(PathString(bRoot, d), <<n>>) : n \in bNames \ aNames }
       \cup { PatchLine(PathString(bRoot, d \o <<n>>)) :
                n \in { m \in aNames \cap bNames :
                          isFile(aTree, m) /\ isFile(bTree, m)
                          /\ aTree[d \o <<m>>] # bTree[d \o <<m>>] } }
       \cup UNION { diffLines(aRoot, bRoot, aTree, bTree, d \o <<n>>) :
                n \in { m \in aNames \cap bNames :
                          ~isFile(aTree, m) /\ ~isFile(bTree, m) } }

\* a comparison that stops at the top-level directory
diffNotRecursive(aRoot, bRoot, aTree, bTree) ==
    { l \in diffLines(aRoot, bRoot, aTree, bTree, <<>>) :
        \/ l.kind = "onlyIn" /\ l.folder \in {aRoot, bRoot}
        \/ l.kind = "patch" /\ Len(l.newFileName) = Len(bRoot) + 2 }

\* diff -ur <a> <b>
diffUr(aRoot, bRoot, aTree, bTree) == diffLines(aRoot, bRoot, aTree, bTree, <<>>)

-----------------------------------------------------------------------------
(* Classifying the differences (auditPackage, the benign rules) *)

\* .replace(/^\//, "")
StripLeadingSlash(s) == IF StartsWith(s, <<"/">>) THEN Tail(s) ELSE s

ChangeRecord(type, path) == [type |-> type, path |-> path]

\* the "Only in <folder>: <filename>" lines of the diff output
onlyInLines(diff) == { l \in diff : l.kind = "onlyIn" }

\* an "Only in" line whose folder is below neither content path
unexpectedOnlyIn(diff, builtContentPath, publishedContentPath) ==
    \E l \in onlyInLines(diff) :
        /\ ~StartsWith(l.folder, publishedContentPath)
        /\ ~StartsWith(l.folder, builtContentPath)

onlyInChange(l, builtContentPath, publishedContentPath) ==
    IF StartsWith(l.folder, publishedContentPath)
    THEN ChangeRecord("published-only",
            StripLeadingSlash(ReplaceFirst(l.folder, publishedContentPath, <<>>))
                \o <<"/">> \o l.filename)
    ELSE ChangeRecord("build-only",
            StripLeadingSlash(ReplaceFirst(l.folder, builtContentPath, <<>>))
                \o <<"/">> \o l.filename)

\* a path extraction that takes the top-level directory to be "package"
patchChangeAssumesPackage(l, publishedContentPath) ==
    ChangeRecord("change",
        ReplaceFirst(l.newFileName,
                     SubSeq(publishedContentPath, 1, Len(publishedContentPath) - 1)
                        \o <<"package">>,
                     <<>>))

\* parsePatch over what is left once the "Only in" lines are stripped
patchChange(l, publishedContentPath) ==
    ChangeRecord("change", ReplaceFirst(l.newFileName, publishedContentPath, <<>>))

changesOf(diff, builtContentPath, publishedContentPath) ==
    { onlyInChange(l, builtContentPath, publishedContentPath) : l \in onlyInLines(diff) }
    \cup { patchChange(l, publishedContentPath) : l \in diff \ onlyInLines(diff) }

\* rule 1 without the test on the change type
benignRule1AnyType(change) ==
    change.path \in { <<"/", "CHANGELOG.md">>, <<"/", ".npmignore">> }

benignRule1(change) ==
    /\ change.type = "published-only"
    /\ change.path \in { <<"/", "CHANGELOG.md">>, <<"/", ".npmignore">> }

\* rule 2 as a test on the root file alone
benignRule2RootOnly(change) == change.path = <<"/", "tsconfig.tsbuildinfo">>

benignRule2(change) == EndsWith(change.path, <<"/", "tsconfig.tsbuildinfo">>)

\* rule 3 without the test on the package name
benignRule3AnyPackage(name, change) ==
    change.path \in { <<"/", "package.json">>, <<"/", "README.md">>, <<"/", "LICENSE">> }

benignRule3(name, change) ==
    /\ IsTypesPackage(name)
    /\ change.path \in { <<"/", "package.json">>, <<"/", "README.md">>, <<"/", "LICENSE">> }

isBenign(name, change) ==
    benignRule1(change) \/ benignRule2(change) \/ benignRule3(name, change)

\* changes.some(...) in place of changes.every(...)
everyChangeBenignSome(name, changes) == \E c \in changes : isBenign(name, c)

\* changes.every((change) => ...)
everyChangeBenign(name, changes) == \A c \in changes : isBenign(name, c)

\* knownMismatches.js
SafeBuffer == <<"safe-buffer">>
Resolve == <<"resolve">>
IconvLite == <<"iconv-lite">>

knownMismatches ==
    [n \in {SafeBuffer, Resolve, IconvLite} |->
        CASE n = SafeBuffer -> << <<"5.2.1">> >>
          [] n = Resolve -> << <<"1.22.10">> >>
          [] n = IconvLite -> << <<"0.6.3">> >>]

\* an allow-list that is never consulted
expectBenignMismatchNever(name, ver) == FALSE

\* packageName in knownMismatches && knownMismatches[packageName].includes(version)
expectBenignMismatch(name, ver) ==
    name \in DOMAIN knownMismatches /\ Includes(knownMismatches[name], ver)

-----------------------------------------------------------------------------
(* auditPackage: its inputs *)

Undefined == <<"undefined">>

AuditPackages == {SafeBuffer, Lodash, TypesNode}

AllowListedVersion == <<"5.2.1">>
Versions == {TheVersion, AllowListedVersion}

\* class JobFailed, and what else the try block throws
JobFailed(category) == [kind |-> "JobFailed", category |-> category]
ThrownString == [kind |-> "string", category |-> <<>>]
ThrownError == [kind |-> "Error", category |-> <<>>]
NothingThrown == [kind |-> "none", category |-> <<>>]

\* String.prototype.toLowerCase, token by token
toLowerCase(s) ==
    [i \in DOMAIN s |-> CASE s[i] = "ALL" -> "all"
                          [] s[i] = "Failing" -> "failing"
                          [] s[i] = "Build:" -> "build:"
                          [] OTHER -> s[i]]

\* process.argv.slice(2).map((arg) => arg.toLowerCase())
CommandLines == { {<<"ALL">>}, {<<"Failing">>}, {<<"Build:", "no tag match">>} }
lowerCased(args) == { toLowerCase(a) : a \in args }

Truthy(obj, key) == HasKey(obj, key) /\ obj[key] = TRUE
StrictlyFalse(obj, key) == HasKey(obj, key) /\ obj[key] = FALSE

\* results.json files an earlier run may have left; MissingFile when none
MissingFile == SetKey(EmptyObject, "ENOENT", TRUE)
MatchedRecord == SetKey(EmptyObject, "contentMatches", TRUE)
FailedRecord ==
    SetKey(EmptyObject, "error", [category |-> <<"build:", "no tag match">>])
OldResults == {MissingFile, MatchedRecord, FailedRecord}

\* shouldSkip(): "audit", "skip", or "throws" when results.json cannot be read
shouldSkip(name, args, oldResultJson) ==
    CASE <<"all">> \in args -> "audit"
      [] toLowerCase(name) \in args -> "audit"
      [] oldResultJson = MissingFile -> "throws"
      [] /\ ~Truthy(oldResultJson, "contentMatches")
         /\ ~Truthy(oldResultJson, "isKnownBenignMismatch")
         /\ <<"failing">> \in args -> "audit"
      [] /\ StrictlyFalse(oldResultJson, "contentMatches")
         /\ <<"benign-mismatch">> \in args -> "audit"
      [] /\ StrictlyFalse(oldResultJson, "contentMatches")
         /\ ~Truthy(oldResultJson, "isKnownBenignMismatch")
         /\ <<"mismatch">> \in args -> "audit"
      [] /\ HasKey(oldResultJson, "errorCategory")
         /\ toLowerCase(oldResultJson["errorCategory"]) \in args -> "audit"
      [] OTHER -> "skip"

\* what the registry answers for a package: the fields the audit reads
GitPlusHttps == <<"git+", "https://", "github.com/", "o/r.git">>
GitProtocol == <<"git://", "github.com/", "o/r.git">>
SshGithub == <<"ssh://git@", "github.com/", "o/r.git">>

RegistryResp(latest, time, tarballSuffix, repository) ==
    [latest |-> latest, time |-> time, tarballSuffix |-> tarballSuffix,
     repository |-> repository]

Repository(present, type, url) == [present |-> present, type |-> type, url |-> url]

GitRepository == Repository(TRUE, "git", GitPlusHttps)

\* the latest versions followed for a package: for a name on the allow-list,
\* the allow-listed version as well as an ordinary one
LatestVersions(name) ==
    IF name \in DOMAIN knownMismatches THEN Versions ELSE {TheVersion}

RegistryResponses(name) ==
    { RegistryResp(v, ThePublishedDate, <<".tgz">>, GitRepository) :
        v \in LatestVersions(name) }
    \cup { RegistryResp(TheVersion, Undefined, <<".tgz">>, GitRepository),
           RegistryResp(TheVersion, ThePublishedDate, <<".tar.gz">>, GitRepository),
           RegistryResp(TheVersion, ThePublishedDate, <<".tgz">>,
                        Repository(FALSE, "", <<>>)),
           RegistryResp(TheVersion, ThePublishedDate, <<".tar.gz">>,
                        Repository(FALSE, "", <<>>)),
           RegistryResp(TheVersion, ThePublishedDate, <<".tgz">>,
                        Repository(TRUE, "svn", GitPlusHttps)),
           RegistryResp(TheVersion, ThePublishedDate, <<".tgz">>,
                        Repository(TRUE, "", GitProtocol)),
           RegistryResp(TheVersion, ThePublishedDate, <<".tgz">>,
                        Repository(TRUE, "git", SshGithub)) }

tarballUrlOf(name, resp) ==
    <<"https://registry.npmjs.org/">> \o name \o <<"/-/">> \o
        Last(SplitSlash(name)) \o <<"-">> \o resp.latest \o resp.tarballSuffix

\* the three .replace calls on the repository URL
normaliseRepoUrl(url) ==
    LET a == IF StartsWith(url, <<"git+">>) THEN Tail(url) ELSE url
        b == IF StartsWith(a, <<"git://">>) THEN <<"https://">> \o Tail(a) ELSE a
    IN IF StartsWith(b, <<"ssh://git@", "github.com/">>)
       THEN <<"https://", "github.com/">> \o SubSeq(b, 3, Len(b))
       ELSE b

versionDir(name, ver) == <<"/", "audits", "/">> \o name \o <<"/">> \o ver
buildDir(name, ver) == versionDir(name, ver) \o <<"/", "build">>
publishedDir(name, ver) == versionDir(name, ver) \o <<"/", "published">>

\* the error codes buildPackage.js reports in buildResult.json
ResolverErrorCodes == {"clone failed", "no tag match", "unexpected-error"}

\* a file name that leads out of the directory it is appended to
ClimbingName == <<"..", "/", "..", "/", "other.tgz">>

\* buildResult.json as the container may leave it; MissingFile when it
\* wrote none
BuildResultJsons ==
    { SetKey(EmptyObject, "errorCode", c) : c \in ResolverErrorCodes }
    \cup { SetKey(EmptyObject, "tarballFilename", <<"package-1.0.0.tgz">>),
           SetKey(EmptyObject, "tarballFilename", ClimbingName),
           SetKey(EmptyObject, "isBabel", FALSE),
           MissingFile }

\* the top-level entries of an archive
ArchiveTops == { {<<"package">>}, {<<"node">>}, {<<"package">>, <<"extra">>}, {} }
PublishedTops == { <<"package">>, <<"node">> }

\* the archive the name leads to: the container's own inside the build
\* directory; outside it, when there is one, an archive without entries
ArchiveTopsAt(tgzFilename) ==
    IF Includes(tgzFilename, "/") THEN { {} } ELSE ArchiveTops

-----------------------------------------------------------------------------
(* auditPackage: its steps *)

Did(op) == \E i \in 1..Len(ops) : ops[i] = op

\* log(...msg): msg.pop().toString() throws on an undefined argument
logThrows(msg) == \E i \in 1..Len(msg) : msg[i] = Undefined

AuditThrow(e) == auditPc' = "catch" /\ caught' = e

AuditInit ==
    /\ auditedPackage \in AuditPackages
    /\ \E args \in CommandLines, old \in OldResults :
          /\ whatToAudit = lowerCased(args)
          /\ resultsFile = old
          \* ALL is the first run, over an empty audits directory; a failed
          \* audit is followed into its re-audit for one package, which the
          \* first run then leaves out
          /\ <<"all">> \in lowerCased(args) =>
                old = MissingFile /\ auditedPackage # Lodash
          /\ old = FailedRecord => auditedPackage = Lodash
    /\ auditPc = "start"
    /\ resultJson = EmptyObject
    /\ buildDirFiles = {}
    /\ contentPaths = [built |-> <<>>, published |-> <<>>]
    /\ trees = [built |-> EmptyObject, published |-> EmptyObject]
    /\ caught = NothingThrown
    /\ escaped = NothingThrown
    /\ ops = <<>>
    \* the build script and the pool are not part of this run
    /\ scriptArgs = [packageName |-> <<>>, gitUrl |-> "", version |-> <<>>,
                     publishedDate |-> <<>>]
    /\ pc = "idle"
    /\ repo = [tags |-> {}, manifestDirs |-> {}, yarnLock |-> FALSE, pnpmLock |-> FALSE]
    /\ cwd = <<"/">>
    /\ pkgMngr = "npm"
    /\ packageSubdir = Null
    /\ tagIdx = 1
    /\ manifests = [root |-> NoManifest, subdir |-> NoManifest]
    /\ hasBuilt = FALSE
    /\ finalTgz = Null
    /\ thrown = NoException
    /\ buildResult = EmptyObject
    /\ cmds = <<>>
    /\ outputDir = {}
    /\ packageNamesQueue = <<>>
    /\ workers = <<>>
    /\ auditsDir = EmptyObject
    /\ processStatus = "idle"
    /\ allResults = <<>>
    /\ resultsHtml = Null

\* part_007:627-696: mkdir, shouldSkip, the fresh resultJson
StartAudit ==
    /\ auditPc = "start"
    /\ LET outcome == shouldSkip(auditedPackage, whatToAudit, resultsFile)
       IN CASE outcome = "skip" ->
                 /\ auditPc' = "skipped"
                 /\ UNCHANGED <<resultJson, escaped>>
            [] outcome = "throws" ->
                 /\ auditPc' = "rejected"
                 /\ escaped' = ThrownError
                 /\ UNCHANGED resultJson
            [] OTHER ->
                 /\ auditPc' = "fetch"
                 /\ resultJson' = SetKey(EmptyObject, "packageName", auditedPackage)
                 /\ UNCHANGED escaped
    /\ UNCHANGED <<auditedPackage, whatToAudit, resultsFile, buildDirFiles,
                   contentPaths, trees, caught, ops>>
    /\ UNCHANGED <<resolverVars, poolVars>>

\* checks that take a descriptor without a type for one that is not git
registryCheckTypeRequired(name, resp) ==
    CASE ~EndsWith(tarballUrlOf(name, resp), <<".tgz">>) -> ThrownString
      [] ~resp.repository.present -> JobFailed(<<"no repository">>)
      [] resp.repository.type # "git" -> JobFailed(<<"not git">>)
      [] OTHER -> NothingThrown

\* part_007:751-769: what the checks on the registry document throw, in
\* the order of the code: tarball URL, repository present, repository type
registryCheck(name, resp) ==
    CASE ~EndsWith(tarballUrlOf(name, resp), <<".tgz">>) -> ThrownString
      [] ~resp.repository.present -> JobFailed(<<"no repository">>)
      [] resp.repository.type # "git" /\ resp.repository.type # "" ->
            JobFailed(<<"not git">>)
      [] OTHER -> NothingThrown

\* part_007:729-823: the registry data, the repository URL, the directories
FetchRegistry ==
    /\ auditPc = "fetch"
    /\ ops' = Append(ops, "fetch")
    /\ \/ /\ AuditThrow(JobFailed(<<"reg fetch failed">>))
          /\ UNCHANGED resultJson
       \/ \E resp \in RegistryResponses(auditedPackage) :
             LET withVersion ==
                     SetKey(SetKey(resultJson, "version", resp.latest),
                            "publishedAt", resp.time)
                 e == registryCheck(auditedPackage, resp)
             IN IF e # NothingThrown
                THEN /\ AuditThrow(e)
                     /\ resultJson' = withVersion
                ELSE /\ auditPc' = "docker"
                     /\ resultJson' =
                          SetKey(withVersion, "repoUrl",
                                 normaliseRepoUrl(resp.repository.url))
                     /\ UNCHANGED caught
    /\ buildDirFiles' = {}
    /\ UNCHANGED <<auditedPackage, whatToAudit, resultsFile, contentPaths,
                   trees, escaped>>
    /\ UNCHANGED <<resolverVars, poolVars>>

\* part_007:835-869: docker run, then buildResult.json
DockerRun ==
    /\ auditPc = "docker"
    /\ IF resultJson["publishedAt"] = Undefined
       THEN \* escapeShellArg(undefined): arg.replace is not a function
            /\ AuditThrow(ThrownError)
            /\ UNCHANGED <<resultJson, buildDirFiles, ops>>
       ELSE /\ ops' = Append(ops, "docker run")
            /\ \/ /\ AuditThrow(ThrownError)
                  /\ UNCHANGED <<resultJson, buildDirFiles>>
               \/ \E buildResultJson \in BuildResultJsons :
                     CASE buildResultJson = MissingFile ->
                            /\ AuditThrow(ThrownString)
                            /\ UNCHANGED <<resultJson, buildDirFiles>>
                       [] HasKey(buildResultJson, "errorCode") ->
                            /\ resultJson' =
                                 SetKey(resultJson, "buildDetails", buildResultJson)
                            /\ buildDirFiles' = {<<"buildResult.json">>}
                            /\ AuditThrow(JobFailed(
                                 <<"build:", buildResultJson["errorCode"]>>))
                       [] ~HasKey(buildResultJson, "tarballFilename") ->
                            /\ resultJson' =
                                 SetKey(resultJson, "buildDetails", buildResultJson)
                            /\ buildDirFiles' = {<<"buildResult.json">>}
                            /\ AuditThrow(ThrownString)
                       [] OTHER ->
                            /\ resultJson' =
                                 SetKey(resultJson, "buildDetails", buildResultJson)
                            /\ buildDirFiles' =
                                 {<<"buildResult.json">>} \cup
                                 { n \in {buildResultJson["tarballFilename"]} :
                                     ~Includes(n, "/") }
                            /\ auditPc' = "extract"
                            /\ UNCHANGED caught
    /\ UNCHANGED <<auditedPackage, whatToAudit, resultsFile, contentPaths,
                   trees, escaped>>
    /\ UNCHANGED <<resolverVars, poolVars>>

\* part_007:870-890: unpack the built archive, find its top-level folder
ExtractBuild ==
    /\ auditPc = "extract"
    /\ \/ /\ ops' = Append(ops, "tar build")
          /\ AuditThrow(ThrownError)
          /\ UNCHANGED <<buildDirFiles, contentPaths>>
       \/ \E tops \in ArchiveTopsAt(resultJson["buildDetails"]["tarballFilename"]) :
             LET extractedFiles == tops \ {<<"buildResult.json">>}
             IN /\ ops' = ops \o <<"tar build", "rm build archive">>
                /\ buildDirFiles' = {<<"buildResult.json">>} \cup tops
                /\ IF Cardinality(extractedFiles) # 1
                   THEN AuditThrow(ThrownError) /\ UNCHANGED contentPaths
                   ELSE /\ contentPaths' =
                             [contentPaths EXCEPT !.built =
                                 buildDir(auditedPackage, resultJson["version"])
                                    \o <<"/">> \o (CHOOSE t \in extractedFiles : TRUE)]
                        /\ auditPc' = "download"
                        /\ UNCHANGED caught
    /\ UNCHANGED <<auditedPackage, whatToAudit, resultsFile, resultJson, trees,
                   escaped>>
    /\ UNCHANGED <<resolverVars, poolVars>>

\* part_007:894-905: fetch and unpack the published archive
DownloadPublished ==
    /\ auditPc = "download"
    /\ \/ /\ ops' = Append(ops, "wget")
          /\ AuditThrow(ThrownError)
          /\ UNCHANGED <<contentPaths, trees>>
       \/ /\ ops' = ops \o <<"wget", "tar published">>
          /\ \/ /\ AuditThrow(ThrownError)
                /\ UNCHANGED <<contentPaths, trees>>
             \/ \E top \in PublishedTops, pair \in TreePairs :
                   /\ contentPaths' =
                        [contentPaths EXCEPT !.published =
                            publishedDir(auditedPackage, resultJson["version"])
                               \o <<"/">> \o top]
                   /\ trees' = pair
                   /\ auditPc' = "diff"
                   /\ UNCHANGED caught
    /\ UNCHANGED <<auditedPackage, whatToAudit, resultsFile, resultJson,
                   buildDirFiles, escaped>>
    /\ UNCHANGED <<resolverVars, poolVars>>

Classified(result, e, done) == [resultJson |-> result, thrown |-> e, ops |-> done]

\* a classification that marks an allow-listed version before looking at
\* what the comparison found
classifyMarksAllowListed(result, name, diff, builtContentPath, publishedContentPath) ==
    LET expect == expectBenignMismatch(name, result["version"])
        marked == IF expect THEN SetKey(result, "isKnownBenignMismatch", TRUE)
                  ELSE result
    IN IF diff = {}
       THEN Classified(SetKey(marked, "contentMatches", TRUE),
                       IF expect THEN ThrownString ELSE NothingThrown, <<"diff">>)
       ELSE IF expect
       THEN Classified(SetKey(marked, "contentMatches", FALSE), NothingThrown, <<"diff">>)
       ELSE Classified(
              SetKey(SetKey(result, "contentMatches", FALSE), "isKnownBenignMismatch",
                     everyChangeBenign(name,
                        changesOf(diff, builtContentPath, publishedContentPath))),
              NothingThrown, <<"diff", "benign rules">>)

\* part_007:907-1035: what the audit makes of the output of diff: the
\* fields it sets, what it throws, and the operations it went through
classify(result, name, diff, builtContentPath, publishedContentPath) ==
    LET expect == expectBenignMismatch(name, result["version"])
        changes == changesOf(diff, builtContentPath, publishedContentPath)
        mismatch == SetKey(result, "contentMatches", FALSE)
    IN CASE diff = {} ->
              Classified(SetKey(result, "contentMatches", TRUE),
                         IF expect THEN ThrownString ELSE NothingThrown,
                         <<"diff">>)
         [] diff # {} /\ expect ->
              Classified(SetKey(mismatch, "isKnownBenignMismatch", TRUE),
                         NothingThrown, <<"diff">>)
         [] diff # {} /\ ~expect
              /\ unexpectedOnlyIn(diff, builtContentPath, publishedContentPath) ->
              Classified(mismatch, ThrownString, <<"diff">>)
         [] OTHER ->
              Classified(SetKey(mismatch, "isKnownBenignMismatch",
                                everyChangeBenign(name, changes)),
                         NothingThrown, <<"diff", "benign rules">>)

\* part_007:913-1035: run diff -ur on the two content paths and classify
Diff ==
    /\ auditPc = "diff"
    /\ \/ \* diff exits non-zero and prints nothing on stdout
          /\ ops' = Append(ops, "diff (trouble)")
          /\ AuditThrow(ThrownString)
          /\ UNCHANGED resultJson
       \/ LET diff == diffUr(contentPaths.built, contentPaths.published,
                             trees.built, trees.published)
              c == classify(resultJson, auditedPackage, diff,
                            contentPaths.built, contentPaths.published)
          IN /\ ops' = ops \o c.ops
             /\ resultJson' = c.resultJson
             /\ IF c.thrown # NothingThrown
                THEN AuditThrow(c.thrown)
                ELSE auditPc' = "finally" /\ UNCHANGED caught
    /\ UNCHANGED <<auditedPackage, whatToAudit, resultsFile, buildDirFiles,
                   contentPaths, trees, escaped>>
    /\ UNCHANGED <<resolverVars, poolVars>>

\* a catch block that records nothing for a JobFailed
catchBlockForgets(result, e) ==
    IF e.kind = "JobFailed"
    THEN [resultJson |-> result, thrown |-> NothingThrown]
    ELSE [resultJson |-> SetKey(result, "error", [category |-> <<"unexpected crash">>]),
          thrown |-> NothingThrown]

\* part_007:1036-1071: the catch block; what it records and what it throws
\* itself.  `let category` is never assigned, so log("Failed with error",
\* category) is handed undefined
catchBlock(result, e) ==
    LET category == Undefined
    IN IF e.kind = "JobFailed"
       THEN [resultJson |-> SetKey(result, "error", [category |-> e.category]),
             thrown |-> IF logThrows(<< <<"Failed with error">>, category >>)
                        THEN ThrownError ELSE NothingThrown]
       ELSE [resultJson |-> SetKey(result, "error", [category |-> <<"unexpected crash">>]),
             thrown |-> NothingThrown]

Catch ==
    /\ auditPc = "catch"
    /\ LET after == catchBlock(resultJson, caught)
       IN /\ resultJson' = after.resultJson
          /\ escaped' = after.thrown
    /\ auditPc' = "finally"
    /\ UNCHANGED <<auditedPackage, whatToAudit, resultsFile, buildDirFiles,
                   contentPaths, trees, caught, ops>>
    /\ UNCHANGED <<resolverVars, poolVars>>

\* part_007:1072-1086: flush the log, write results.json; an exception the
\* catch block threw leaves auditPackage after that
Finally ==
    /\ auditPc = "finally"
    /\ resultsFile' = resultJson
    /\ ops' = Append(ops, "writeFile results.json")
    /\ auditPc' = IF escaped = NothingThrown THEN "returned" ELSE "rejected"
    /\ UNCHANGED <<auditedPackage, whatToAudit, resultJson, buildDirFiles,
                   contentPaths, trees, caught, escaped>>
    /\ UNCHANGED <<resolverVars, poolVars>>

AuditNext ==
    \/ StartAudit
    \/ FetchRegistry
    \/ DockerRun
    \/ ExtractBuild
    \/ DownloadPublished
    \/ Diff
    \/ Catch
    \/ Finally

SpecAudit == AuditInit /\ [][AuditNext]_vars

-----------------------------------------------------------------------------
(* Properties of auditPackage *)

Written == Did("writeFile results.json")

\* the (packageName, version) pairs of the known-mismatch allow-list
AllowList ==
    { <<SafeBuffer, <<"5.2.1">> >>, <<Resolve, <<"1.22.10">> >>,
      <<IconvLite, <<"0.6.3">> >> }

AllowListed ==
    HasKey(resultJson, "version") /\ <<auditedPackage, resultJson["version"]>> \in AllowList

ExistsIn(tree, p) == \E f \in DOMAIN tree : StartsWith(f, p)

Front(p) == SubSeq(p, 1, Len(p) - 1)

Prefixes(tree) == UNION { { SubSeq(f, 1, n) : n \in 1..Len(f) } : f \in DOMAIN tree }

\* entries among the paths pa of one side that the other side, with paths
\* pb, lacks although it has their parent directory
OnlyOn(pa, pb) ==
    { p \in pa : p \notin pb /\ (Len(p) = 1 \/ Front(p) \in pb) }

\* the differences between the two extracted trees, entry by entry
DifferingEntries ==
    LET pb == Prefixes(trees.built)
        pp == Prefixes(trees.published)
    IN { [type |-> "build-only", at |-> p] : p \in OnlyOn(pb, pp) }
       \cup { [type |-> "published-only", at |-> p] : p \in OnlyOn(pp, pb) }
       \cup { [type |-> "change", at |-> f] :
                f \in { g \in DOMAIN trees.built \cap DOMAIN trees.published :
                          trees.built[g] # trees.published[g] } }

\* the benign-rule table, on entries
EntryBenign(e) ==
    \/ e.type = "published-only" /\ e.at \in { <<"CHANGELOG.md">>, <<".npmignore">> }
    \/ Last(e.at) = "tsconfig.tsbuildinfo"
    \/ /\ IsTypesPackage(auditedPackage)
       /\ e.at \in { <<"package.json">>, <<"README.md">>, <<"LICENSE">> }

\* C1: when the diff reports differences and the (packageName, version) is
\* not allow-listed, contentMatches is false and isKnownBenignMismatch is
\* true exactly when every difference matches at least one benign rule; one
\* matching and one non-matching difference give isKnownBenignMismatch=false
C1_AllOrNothing ==
    LET d == DifferingEntries
    IN (Did("diff") /\ ~AllowListed /\ d # {}) =>
           /\ Did("benign rules")
           /\ StrictlyFalse(resultJson, "contentMatches")
           /\ HasKey(resultJson, "isKnownBenignMismatch")
           /\ resultJson["isKnownBenignMismatch"] =
                 (\A e \in d : EntryBenign(e))
           /\ Written => resultsFile = resultJson

C1_Witness ==
    /\ Written
    /\ ~AllowListed
    /\ Did("benign rules")
    /\ Cardinality(DifferingEntries) = 2
    /\ \E e \in DifferingEntries : EntryBenign(e)
    /\ \E e \in DifferingEntries : ~EntryBenign(e)
    /\ StrictlyFalse(resultsFile, "contentMatches")
    /\ StrictlyFalse(resultsFile, "isKnownBenignMismatch")

\* C2: for a version that is not allow-listed and whose build succeeded,
\* contentMatches is true exactly when the two trees do not differ, and
\* identical trees give a record with contentMatches=true and no error
C2_MatchesIffNoDifference ==
    (Did("diff") /\ ~AllowListed) =>
        /\ Truthy(resultJson, "contentMatches") <=> trees.built = trees.published
        /\ (Written /\ trees.built = trees.published) =>
              /\ Truthy(resultsFile, "contentMatches")
              /\ ~HasKey(resultsFile, "error")
              /\ auditPc = "returned"

C2_Witness ==
    /\ Written
    /\ ~AllowListed
    /\ Did("diff")
    /\ trees.built = trees.published
    /\ Truthy(resultsFile, "contentMatches")
    /\ ~HasKey(resultsFile, "error")

Compared == Did("diff") \/ Did("diff (trouble)")

BuildFailureReported ==
    /\ HasKey(resultJson, "buildDetails")
    /\ HasKey(resultJson["buildDetails"], "errorCode")

\* C7: once the build reports an error code, the audit extracts nothing,
\* downloads nothing, runs no diff and never sets contentMatches, and the
\* record it writes carries the category build:<code>
C7_BuildFailure ==
    BuildFailureReported =>
        /\ \A op \in {"tar build", "wget", "tar published", "diff",
                      "diff (trouble)", "benign rules"} : ~Did(op)
        /\ ~HasKey(resultJson, "contentMatches")
        /\ Written =>
             /\ HasKey(resultsFile, "error")
             /\ resultsFile["error"].category =
                   <<"build:", resultJson["buildDetails"]["errorCode"]>>
             /\ ~HasKey(resultsFile, "contentMatches")

C7_Witness ==
    /\ Written
    /\ BuildFailureReported
    /\ HasKey(resultsFile, "error")
    /\ resultsFile["error"].category = <<"build:", "no tag match">>

\* C8: in every record, written or being assembled, contentMatches=true
\* comes with isKnownBenignMismatch absent or false
C8_MatchIsNeverBenign ==
    \A record \in {resultsFile, resultJson} :
        Truthy(record, "contentMatches") => ~Truthy(record, "isKnownBenignMismatch")

C8_Witness ==
    /\ Written
    /\ AllowListed
    /\ Truthy(resultsFile, "contentMatches")
    /\ ~HasKey(resultsFile, "isKnownBenignMismatch")

\* the entry by which the two trees differ when there is exactly one, as a
\* set; empty otherwise
OnlyDifference ==
    LET d == DifferingEntries IN IF Cardinality(d) = 1 THEN d ELSE {}

ChangelogNames == { "CHANGELOG.md", ".npmignore" }

\* C13: for a pair that is not allow-listed and whose trees differ in one
\* entry only, CHANGELOG.md or .npmignore on the published side only, at the
\* root, gives contentMatches=false and isKnownBenignMismatch=true; the same
\* file on the built side only, or on the published side only but inside a
\* directory, gives isKnownBenignMismatch=false
C13_ChangelogRule ==
    (Did("diff") /\ ~AllowListed) =>
        \A e \in OnlyDifference :
            Last(e.at) \in ChangelogNames =>
                /\ StrictlyFalse(resultJson, "contentMatches")
                /\ HasKey(resultJson, "isKnownBenignMismatch")
                /\ resultJson["isKnownBenignMismatch"] =
                      (e.type = "published-only" /\ Len(e.at) = 1)
                /\ Written => resultsFile = resultJson

C13_Witness ==
    /\ Written
    /\ ~AllowListed
    /\ auditedPackage = Lodash
    /\ OnlyDifference = {[type |-> "published-only", at |-> <<"CHANGELOG.md">>]}
    /\ StrictlyFalse(resultsFile, "contentMatches")
    /\ Truthy(resultsFile, "isKnownBenignMismatch")

\* C14: for a pair that is not allow-listed and whose only difference is a
\* modified tsconfig.tsbuildinfo, at the root or inside a directory, the
\* result is contentMatches=false and isKnownBenignMismatch=true
C14_TsBuildInfoRule ==
    (Did("diff") /\ ~AllowListed) =>
        \A e \in OnlyDifference :
            (e.type = "change" /\ Last(e.at) = "tsconfig.tsbuildinfo") =>
                /\ StrictlyFalse(resultJson, "contentMatches")
                /\ Truthy(resultJson, "isKnownBenignMismatch")
                /\ Written => resultsFile = resultJson

C14_Witness ==
    /\ Written
    /\ ~AllowListed
    /\ auditedPackage = Lodash
    /\ OnlyDifference = {[type |-> "change", at |-> <<"lib", "tsconfig.tsbuildinfo">>]}
    /\ StrictlyFalse(resultsFile, "contentMatches")
    /\ Truthy(resultsFile, "isKnownBenignMismatch")

\* the files DefinitelyTyped generates at the root of a package
GeneratedFiles == { <<"package.json">>, <<"README.md">>, <<"LICENSE">> }

ModifiedGenerated(e) == e.type = "change" /\ e.at \in GeneratedFiles

\* a difference rule 1 or rule 2 accepts
ChangelogOrBuildInfo(e) ==
    \/ e.type = "published-only" /\ e.at \in { <<"CHANGELOG.md">>, <<".npmignore">> }
    \/ Last(e.at) = "tsconfig.tsbuildinfo"

\* C15 as claimed: for an @types/ package a mismatch made only of modified
\* root package.json, README.md, LICENSE is benign and a further difference
\* in any other file makes it a real mismatch; for any other package a
\* modified root package.json, README.md or LICENSE is never benign
C15_Original ==
    LET d == DifferingEntries
    IN (Did("diff") /\ d # {}) =>
           /\ (IsTypesPackage(auditedPackage)
                 /\ (\A e \in d : ModifiedGenerated(e))) =>
                    Truthy(resultJson, "isKnownBenignMismatch")
           /\ (IsTypesPackage(auditedPackage)
                 /\ (\E e \in d : ModifiedGenerated(e))
                 /\ (\E e \in d : e.at \notin GeneratedFiles)) =>
                    StrictlyFalse(resultJson, "isKnownBenignMismatch")
           /\ (~IsTypesPackage(auditedPackage)
                 /\ (\E e \in d : ModifiedGenerated(e))) =>
                    ~Truthy(resultJson, "isKnownBenignMismatch")

\* C15: for an @types/ package a mismatch made only of modified root
\* package.json, README.md, LICENSE is benign, and a further difference in
\* another file that neither rule 1 nor rule 2 accepts makes it a real
\* mismatch; for any other package whose version is not allow-listed, a
\* modified root package.json, README.md or LICENSE is never benign
C15_TypesRule ==
    LET d == DifferingEntries
    IN (Did("diff") /\ d # {}) =>
           /\ (IsTypesPackage(auditedPackage)
                 /\ (\A e \in d : ModifiedGenerated(e))) =>
                    /\ StrictlyFalse(resultJson, "contentMatches")
                    /\ Truthy(resultJson, "isKnownBenignMismatch")
           /\ (IsTypesPackage(auditedPackage)
                 /\ (\E e \in d : ModifiedGenerated(e))
                 /\ (\E e \in d :
                       e.at \notin GeneratedFiles /\ ~ChangelogOrBuildInfo(e))) =>
                    /\ StrictlyFalse(resultJson, "contentMatches")
                    /\ StrictlyFalse(resultJson, "isKnownBenignMismatch")
           /\ (~IsTypesPackage(auditedPackage) /\ ~AllowListed
                 /\ (\E e \in d : ModifiedGenerated(e))) =>
                    /\ StrictlyFalse(resultJson, "contentMatches")
                    /\ StrictlyFalse(resultJson, "isKnownBenignMismatch")

C15_Witness ==
    /\ Written
    /\ auditedPackage = TypesNode
    /\ DifferingEntries = { [type |-> "change", at |-> <<"README.md">>],
                            [type |-> "change", at |-> <<"index.d.ts">>] }
    /\ StrictlyFalse(resultsFile, "contentMatches")
    /\ StrictlyFalse(resultsFile, "isKnownBenignMismatch")

\* a name for a top-level directory that no archive of the audit carries:
\* the top-level directories are called package or node in the states
\* themselves
OtherTopNames == UNION ArchiveTops \ PublishedTops

\* the content paths once the top-level directories are called bt and pt
RenamedBuilt(bt) == buildDir(auditedPackage, resultJson["version"]) \o <<"/">> \o bt
RenamedPublished(pt) == publishedDir(auditedPackage, resultJson["version"]) \o <<"/">> \o pt

\* the ChangeRecords and the record classify leaves, for content paths b, p
ComparisonAt(b, p) ==
    LET diff == diffUr(b, p, trees.built, trees.published)
    IN [changes |-> changesOf(diff, b, p),
        verdict |-> classify(resultJson, auditedPackage, diff, b, p).resultJson]

\* C18: when the comparison has run, the ChangeRecords and the verdict are
\* those obtained under any other name of the top-level directory of either
\* tree, and classifying the pair again gives the verdict already recorded
C18_TopDirIndependent ==
    (Did("diff") /\ auditPc \in {"catch", "finally"}) =>
        LET here == ComparisonAt(contentPaths.built, contentPaths.published)
        IN /\ here.verdict = resultJson
           /\ \A bt \in OtherTopNames :
                 ComparisonAt(RenamedBuilt(bt), contentPaths.published) = here
           /\ \A pt \in OtherTopNames :
                 ComparisonAt(contentPaths.built, RenamedPublished(pt)) = here

\* a comparison of differing trees whose top-level directories are both
\* called node
C18_Witness ==
    /\ Written
    /\ Did("benign rules")
    /\ contentPaths.built = RenamedBuilt(<<"node">>)
    /\ contentPaths.published = RenamedPublished(<<"node">>)
    /\ ComparisonAt(contentPaths.built, contentPaths.published).changes =
          { ChangeRecord("change", <<"/", "lib", "/", "tsconfig.tsbuildinfo">>),
            ChangeRecord("published-only", <<"/", "CHANGELOG.md">>) }
    /\ Truthy(resultsFile, "isKnownBenignMismatch")

\* the registry document carries no publication time for the latest version
NoPublishTimestamp ==
    HasKey(resultJson, "publishedAt") /\ resultJson["publishedAt"] = Undefined

\* C24 as claimed, for the audit's side: when no publish timestamp is
\* available the build is still run; once the audit is past the step that
\* starts the container, the container was started
C24_Original ==
    (NoPublishTimestamp /\ HasKey(resultJson, "repoUrl") /\ auditPc # "docker") =>
        Did("docker run")


\* the path of an entry from the top-level directory down, each name after
\* a "/"
CanonicalPath(at) == PathString(<<>>, at)

\* C29 as claimed: each ChangeRecord carries the path of its entry relative
\* to the stripped top-level directory in the one form "/<name>/.../<name>",
\* whatever its type and whether the entry is at the root or in a directory
C29_Original ==
    (Did("benign rules") /\ auditPc \in {"catch", "finally"}) =>
        ComparisonAt(contentPaths.built, contentPaths.published).changes =
            { ChangeRecord(e.type, CanonicalPath(e.at)) : e \in DifferingEntries }


\* an entry on one side only that rule 2 or rule 3 names: tsconfig.tsbuildinfo
\* anywhere, or a generated file at the root of an @types package
OneSidedGenerated(e) ==
    /\ e.type \in {"build-only", "published-only"}
    /\ \/ Last(e.at) = "tsconfig.tsbuildinfo"
       \/ IsTypesPackage(auditedPackage) /\ e.at \in GeneratedFiles

\* C30 as claimed: rules 2 and 3 accept modified files only, so a pair that
\* is not allow-listed and differs only by a tsconfig.tsbuildinfo, or by a
\* package.json, README.md or LICENSE of an @types package, present on one
\* side only is a real mismatch: isKnownBenignMismatch=false
C30_Original ==
    (Did("benign rules") /\ ~AllowListed) =>
        \A e \in OnlyDifference :
            OneSidedGenerated(e) => StrictlyFalse(resultJson, "isKnownBenignMismatch")


\* diff exited non-zero and printed nothing
DiffFailedSilently == Did("diff (trouble)")

\* the category of the catch-all branch
CatchAllCategory == <<"unexpected crash">>

\* C31 as claimed: a diff that fails without output ends the audit with an
\* error category of its own, not the catch-all one, and the record has no
\* contentMatches and no isKnownBenignMismatch
C31_Original ==
    (DiffFailedSilently /\ Written) =>
        /\ HasKey(resultsFile, "error")
        /\ resultsFile["error"].category # CatchAllCategory
        /\ ~HasKey(resultsFile, "contentMatches")
        /\ ~HasKey(resultsFile, "isKnownBenignMismatch")


\* the audit failed on the repository descriptor of the registry document
RepositoryFailures == { JobFailed(<<"no repository">>), JobFailed(<<"not git">>) }

\* after such a failure nothing is built, downloaded or compared and the
\* record carries the category and no contentMatches
StopsAtRepository ==
    caught \in RepositoryFailures =>
        /\ ~Did("docker run") /\ ~Did("tar build") /\ ~Did("wget")
        /\ ~Did("diff") /\ ~Did("diff (trouble)")
        /\ ~HasKey(resultJson, "contentMatches")
        /\ auditPc # "catch" => resultJson["error"].category = caught.category
        /\ Written =>
              /\ resultsFile["error"].category = caught.category
              /\ ~HasKey(resultsFile, "contentMatches")

\* C32 as claimed: a registry document without a repository descriptor ends
\* the audit with "no repository", one whose descriptor is not of type git
\* with "not git", and then nothing is built, downloaded or compared
C32_Original ==
    /\ auditPc = "fetch" =>
          \A resp \in RegistryResponses(auditedPackage) :
             /\ ~resp.repository.present =>
                   registryCheck(auditedPackage, resp) = JobFailed(<<"no repository">>)
             /\ (resp.repository.present /\ resp.repository.type # "git") =>
                   registryCheck(auditedPackage, resp) = JobFailed(<<"not git">>)
    /\ StopsAtRepository

\* C32 amended: for a registry document whose tarball URL ends in .tgz, no
\* repository descriptor ends the audit with "no repository" and a
\* descriptor naming a type other than git with "not git", while a
\* descriptor without a type is taken for git and the audit goes on; a
\* tarball URL of another form ends it before the repository is looked at;
\* after "no repository" or "not git" nothing is built, downloaded or
\* compared and the record has no contentMatches
C32_RepositoryChecks ==
    /\ auditPc = "fetch" =>
          \A resp \in RegistryResponses(auditedPackage) :
             LET e == registryCheck(auditedPackage, resp)
                 tgz == EndsWith(tarballUrlOf(auditedPackage, resp), <<".tgz">>)
                 repository == resp.repository
             IN e = IF ~tgz THEN ThrownString
                    ELSE IF ~repository.present THEN JobFailed(<<"no repository">>)
                    ELSE IF repository.type \notin {"git", ""} THEN JobFailed(<<"not git">>)
                    ELSE NothingThrown
    /\ StopsAtRepository

\* an audit that ended with "not git"
C32_Witness ==
    /\ Written
    /\ caught = JobFailed(<<"not git">>)
    /\ ops = <<"fetch", "writeFile results.json">>
    /\ resultsFile["error"].category = <<"not git">>
    /\ ~HasKey(resultsFile, "contentMatches")


\* the command line names the error category of the record an earlier run
\* left for the package
CategoryRequested ==
    /\ HasKey(resultsFile, "error")
    /\ toLowerCase(resultsFile["error"].category) \in whatToAudit

\* C35 as claimed: a package whose earlier record holds an error category
\* that the command line names, whatever the case of its letters, is
\* audited again and not skipped
C35_Original == CategoryRequested => auditPc # "skipped"


\* C36 as claimed: no record, written or being assembled, carries
\* contentMatches=true together with an error, for any package and version,
\* the allow-listed ones included
C36_Original ==
    /\ ~(Truthy(resultsFile, "contentMatches") /\ HasKey(resultsFile, "error"))
    /\ ~(Truthy(resultJson, "contentMatches") /\ HasKey(resultJson, "error"))


\* the components of a path once "." and empty components are dropped and
\* each ".." has taken away the component before it
RECURSIVE dropDotDot(_, _)
dropDotDot(done, rest) ==
    IF rest = <<>> THEN done
    ELSE IF Head(rest) = <<"..">>
    THEN dropDotDot(IF done = <<>> THEN <<>> ELSE Front(done), Tail(rest))
    ELSE IF Head(rest) \in { <<>>, <<".">> } THEN dropDotDot(done, Tail(rest))
    ELSE dropDotDot(Append(done, Head(rest)), Tail(rest))

\* the file a path string names, as the file system resolves it
resolve(path) == dropDotDot(<<>>, SplitSlash(path))

\* the path names something below the directory
Inside(path, dir) ==
    LET p == resolve(path)
        d == resolve(dir)
    IN Len(p) > Len(d) /\ SubSeq(p, 1, Len(d)) = d

\* part_007:870-871: `${buildDir}/${tgzFilename}`, handed to tar and to rm
BuildArchivePath ==
    buildDir(auditedPackage, resultJson["version"]) \o <<"/">>
        \o resultJson["buildDetails"]["tarballFilename"]

\* C38 as claimed: whatever buildResult.json holds, the archive the host
\* unpacks and then deletes is a path inside that version's build directory
C38_Original ==
    Did("tar build") =>
        Inside(BuildArchivePath, buildDir(auditedPackage, resultJson["version"]))

-----------------------------------------------------------------------------
(* The worker pool (part_007:1089-1109, audit/auditPackages.js:11-38) *)

MAX_SIMULTANEOUS_AUDITS == 5

MaxPackages == 6   \* how many package names the run is given

TopPackages ==
    << <<"lodash">>, <<"chalk">>, <<"react">>, SafeBuffer, <<"debug">>,
       <<"semver">>, <<"ms">>, <<"tslib">> >>

\* topPackages(N_PACKAGES)
packageNames == SubSeq(TopPackages, 1, MaxPackages)

Reverse(seq) == [i \in 1..Len(seq) |-> seq[Len(seq) + 1 - i]]

Auditing(name) == [state |-> "auditing", packageName |-> name]
Finished == [state |-> "finished", packageName |-> <<>>]

\* a loop that reads the last name without taking it off the queue
nextItemPeek(queue) ==
    IF Len(queue) > 0
    THEN [worker |-> Auditing(Last(queue)), queue |-> queue]
    ELSE [worker |-> Finished, queue |-> queue]

\* doAuditsUntilFinished() up to its next await: pop a name and call
\* auditPackage, or return when the queue is empty
nextItem(queue) ==
    IF Len(queue) > 0
    THEN [worker |-> Auditing(Last(queue)), queue |-> SubSeq(queue, 1, Len(queue) - 1)]
    ELSE [worker |-> Finished, queue |-> queue]

\* what the try block of auditPackage may throw
TryExceptions ==
    { JobFailed(<<"reg fetch failed">>), JobFailed(<<"no repository">>),
      JobFailed(<<"not git">>), ThrownString, ThrownError }
    \cup { JobFailed(<<"build:", c>>) : c \in ResolverErrorCodes }

\* one call of auditPackage seen from its caller: the record it leaves in
\* results.json and the exception it rejects with, given what its try block
\* threw
auditPackage(name, e) ==
    LET result == SetKey(EmptyObject, "packageName", name)
    IN IF e = NothingThrown
       THEN [resultJson |-> SetKey(result, "contentMatches", TRUE),
             thrown |-> NothingThrown]
       ELSE catchBlock(result, e)

PoolInit ==
    /\ packageNamesQueue = Reverse(packageNames)
    /\ workers = <<>>
    /\ auditsDir = [n \in SeqToSet(packageNames) |-> MissingFile]
    /\ processStatus = "running"
    /\ allResults = <<>>
    /\ resultsHtml = Null
    \* one run of the script: the audits are seen through auditPackage above
    /\ auditPc = "idle"
    /\ auditedPackage = <<>>
    /\ whatToAudit = {<<"all">>}
    /\ resultsFile = EmptyObject
    /\ resultJson = EmptyObject
    /\ buildDirFiles = {}
    /\ contentPaths = [built |-> <<>>, published |-> <<>>]
    /\ trees = [built |-> EmptyObject, published |-> EmptyObject]
    /\ caught = NothingThrown
    /\ escaped = NothingThrown
    /\ ops = <<>>
    /\ scriptArgs = [packageName |-> <<>>, gitUrl |-> "", version |-> <<>>,
                     publishedDate |-> <<>>]
    /\ pc = "idle"
    /\ repo = [tags |-> {}, manifestDirs |-> {}, yarnLock |-> FALSE, pnpmLock |-> FALSE]
    /\ cwd = <<"/">>
    /\ pkgMngr = "npm"
    /\ packageSubdir = Null
    /\ tagIdx = 1
    /\ manifests = [root |-> NoManifest, subdir |-> NoManifest]
    /\ hasBuilt = FALSE
    /\ finalTgz = Null
    /\ thrown = NoException
    /\ buildResult = EmptyObject
    /\ cmds = <<>>
    /\ outputDir = {}

\* part_007:1099-1101: workers.push(doAuditsUntilFinished())
StartWorker ==
    /\ processStatus = "running"
    /\ Len(workers) < MAX_SIMULTANEOUS_AUDITS
    /\ LET next == nextItem(packageNamesQueue)
       IN /\ workers' = Append(workers, next.worker)
          /\ packageNamesQueue' = next.queue
    /\ UNCHANGED <<auditsDir, processStatus, allResults, resultsHtml>>
    /\ UNCHANGED <<resolverVars, auditVars>>

\* part_007:1092-1095, 1103: the auditPackage a worker awaits settles.  When
\* it resolves the worker goes round its loop; when it rejects, so does the
\* worker, Promise.all and the top-level await, and the process ends there
FinishAudit(w) ==
    /\ processStatus = "running"
    /\ Len(workers) = MAX_SIMULTANEOUS_AUDITS
    /\ workers[w].state = "auditing"
    /\ \E e \in TryExceptions \cup {NothingThrown} :
          LET name == workers[w].packageName
              audit == auditPackage(name, e)
              next == nextItem(packageNamesQueue)
          IN /\ auditsDir' = [auditsDir EXCEPT ![name] = audit.resultJson]
             /\ IF audit.thrown = NothingThrown
                THEN /\ workers' = [workers EXCEPT ![w] = next.worker]
                     /\ packageNamesQueue' = next.queue
                     /\ UNCHANGED processStatus
                ELSE /\ processStatus' = "crashed"
                     /\ UNCHANGED <<workers, packageNamesQueue>>
    /\ UNCHANGED <<allResults, resultsHtml>>
    /\ UNCHANGED <<resolverVars, auditVars>>

\* part_007:1103-1109: every worker has returned; combine the records
Aggregate ==
    /\ processStatus = "running"
    /\ Len(workers) = MAX_SIMULTANEOUS_AUDITS
    /\ \A w \in 1..Len(workers) : workers[w].state = "finished"
    /\ IF \E i \in 1..Len(packageNames) : auditsDir[packageNames[i]] = MissingFile
       THEN processStatus' = "crashed" /\ UNCHANGED allResults
       ELSE /\ allResults' = [i \in 1..Len(packageNames) |-> auditsDir[packageNames[i]]]
            /\ processStatus' = "finished"
    /\ UNCHANGED <<packageNamesQueue, workers, auditsDir, resultsHtml>>
    /\ UNCHANGED <<resolverVars, auditVars>>

\* the concatenation of a sequence of strings
RECURSIVE Flatten(_)
Flatten(texts) ==
    IF texts = <<>> THEN <<>>
    ELSE IF Len(texts) = 1 THEN texts[1]
    ELSE LET half == Len(texts) \div 2
         IN Flatten(SubSeq(texts, 1, half)) \o Flatten(SubSeq(texts, half + 1, Len(texts)))

\* JSON.stringify of a string: the quote and the backslash are escaped, the
\* forward slash is not
escapeJson(s) ==
    Flatten([i \in 1..Len(s) |->
                CASE s[i] = "\"" -> <<"\\", "\"">>
                  [] s[i] = "\\" -> <<"\\", "\\">>
                  [] OTHER -> <<s[i]>>])

stringifyString(s) == <<"\"">> \o escapeJson(s) \o <<"\"">>

JoinComma(texts) ==
    Flatten([i \in 1..(2 * Len(texts) - 1) |->
                IF i % 2 = 1 THEN texts[(i + 1) \div 2] ELSE <<",">>])

\* the properties of a record in the order auditPackage assigns them:
\* part_007:680-681, 810, 916-922, 1039-1051
RecordKeys == <<"packageName", "repoUrl", "contentMatches", "error">>

stringifyValue(key, value) ==
    CASE key = "contentMatches" -> <<IF value THEN "true" ELSE "false">>
      [] key = "error" ->
            <<"{", "\"", "category", "\"", ":">> \o stringifyString(value.category) \o <<"}">>
      [] OTHER -> stringifyString(value)

RECURSIVE stringifyMembers(_, _)
stringifyMembers(record, keys) ==
    IF keys = <<>> THEN <<>>
    ELSE IF HasKey(record, Head(keys))
         THEN << <<"\"", Head(keys), "\"", ":">>
                    \o stringifyValue(Head(keys), record[Head(keys)]) >>
              \o stringifyMembers(record, Tail(keys))
         ELSE stringifyMembers(record, Tail(keys))

stringifyRecord(record) ==
    <<"{">> \o JoinComma(stringifyMembers(record, RecordKeys)) \o <<"}">>

\* JSON.stringify(allResults): part_007:1118
stringify(records) ==
    <<"[">> \o JoinComma([i \in 1..Len(records) |-> stringifyRecord(records[i])])
            \o <<"]">>

\* String.prototype.replaceAll with a one-token pattern; "\\/" holds no
\* dollar sign, so the replacement is inserted as it is
replaceAll(s, tok, r) ==
    Flatten([i \in 1..Len(s) |-> IF s[i] = tok THEN r ELSE <<s[i]>>])

\* the grave accent, written by its code point
Backtick == "U+0060"

\* a replacement pattern starts at i: a dollar sign, not itself the second
\* sign of a pattern, followed by one of the four signs
RECURSIVE PatternAt(_, _)
PatternAt(replacement, i) ==
    /\ i < Len(replacement)
    /\ replacement[i] = "$"
    /\ replacement[i + 1] \in {"$", "&", Backtick, "'"}
    /\ ~(i > 1 /\ PatternAt(replacement, i - 1))

\* what String.prototype.replace inserts for a string replacement: $$ is a
\* dollar sign, $& the matched text, $ with a grave accent the text before
\* the match and $ with an apostrophe the text after it
GetSubstitution(matched, before, after, replacement) ==
    Flatten([i \in 1..Len(replacement) |->
                IF PatternAt(replacement, i)
                THEN CASE replacement[i + 1] = "$" -> <<"$">>
                       [] replacement[i + 1] = "&" -> matched
                       [] replacement[i + 1] = Backtick -> before
                       [] replacement[i + 1] = "'" -> after
                ELSE IF i > 1 /\ PatternAt(replacement, i - 1) THEN <<>>
                ELSE <<replacement[i]>>])

\* String.prototype.replace with a string pattern and a string replacement
replace(s, p, replacement) ==
    LET i == IndexOf(s, p)
        before == SubSeq(s, 1, i - 1)
        after == SubSeq(s, i + Len(p), Len(s))
    IN IF i = 0 THEN s
       ELSE before \o GetSubstitution(p, before, after, replacement) \o after

\* results.template.html: a page whose script element holds the placeholder
ResultsTemplate ==
    <<"<script>", "const allResults = ", "PLACEHOLDER", ";", "<", "/", "script>">>

\* the escaped JSON handed to replace: part_007:1118
EscapedJson(records) == replaceAll(stringify(records), "/", <<"\\", "/">>)

\* part_007:1111-1119: populate the template and write results.html
GenerateReport ==
    /\ processStatus = "finished"
    /\ resultsHtml = Null
    /\ resultsHtml' = replace(ResultsTemplate, <<"PLACEHOLDER">>, EscapedJson(allResults))
    /\ UNCHANGED <<packageNamesQueue, workers, auditsDir, processStatus, allResults>>
    /\ UNCHANGED <<resolverVars, auditVars>>

PoolNext ==
    \/ StartWorker
    \/ \E w \in 1..MAX_SIMULTANEOUS_AUDITS : FinishAudit(w)
    \/ Aggregate
    \/ GenerateReport

SpecPool == PoolInit /\ [][PoolNext]_vars

\* the packages whose record holds an error
FailedPackages ==
    { n \in DOMAIN auditsDir : HasKey(auditsDir[n], "error") }

\* C5 as claimed: whatever fails inside one package's pipeline is recorded
\* in that package's record, and the run goes on: the process is not ended,
\* so the worker takes its next item, the audits in flight are left alone
\* and the aggregation can still take place
C5_Original == FailedPackages # {} => processStatus # "crashed"


\* the workers whose auditPackage call has not settled
InFlight ==
    { w \in 1..Len(workers) :
        /\ workers[w].state = "auditing"
        /\ processStatus = "crashed" => auditsDir[workers[w].packageName] = MissingFile }

\* how many names have been taken off the queue, and which
DequeuedCount == Len(packageNames) - Len(packageNamesQueue)
Dequeued == { packageNames[i] : i \in 1..DequeuedCount }

\* the names whose audit has ended
Audited == { n \in DOMAIN auditsDir : auditsDir[n] # MissingFile }

AllWorkersFinished ==
    /\ Len(workers) = MAX_SIMULTANEOUS_AUDITS
    /\ \A w \in 1..Len(workers) : workers[w].state = "finished"

\* C33: at most 5 audits are in flight; the names are taken off the queue
\* in list order, each by one worker and once: the queue is always the
\* rest of the list, the names in flight are distinct and have no record
\* yet, and every name taken is either in flight or audited; when all
\* workers have finished the queue is empty and every name was audited
C33_BoundedPool ==
    /\ Len(workers) <= MAX_SIMULTANEOUS_AUDITS
    /\ Cardinality(InFlight) <= MAX_SIMULTANEOUS_AUDITS
    /\ DequeuedCount \in 0..Len(packageNames)
    /\ packageNamesQueue =
          Reverse(SubSeq(packageNames, DequeuedCount + 1, Len(packageNames)))
    /\ \A v, w \in InFlight : v # w => workers[v].packageName # workers[w].packageName
    /\ \A w \in InFlight : auditsDir[workers[w].packageName] = MissingFile
    /\ Dequeued = { workers[w].packageName : w \in InFlight } \cup Audited
    /\ AllWorkersFinished =>
          /\ packageNamesQueue = <<>>
          /\ Audited = SeqToSet(packageNames)

\* five audits in flight, a sixth name audited already and the queue empty
C33_Witness ==
    /\ Cardinality(InFlight) = MAX_SIMULTANEOUS_AUDITS
    /\ packageNamesQueue = <<>>
    /\ Cardinality(Audited) = Len(packageNames) - MAX_SIMULTANEOUS_AUDITS
    /\ Audited # {}
    /\ processStatus = "running"


\* every external command and request returns and the event loop runs each
\* continuation that is ready: an enabled step of the pool is taken
PoolFairness ==
    /\ WF_vars(StartWorker)
    /\ \A w \in 1..MAX_SIMULTANEOUS_AUDITS : WF_vars(FinishAudit(w))
    /\ WF_vars(Aggregate)

SpecPoolLive == PoolInit /\ [][PoolNext]_vars /\ PoolFairness

\* C34 as claimed, its end: when every command and request returns, every
\* audit ends and the run comes to the point where all workers have
\* returned and the aggregate holds the record of every package
C34_Original ==
    <>(/\ AllWorkersFinished
       /\ processStatus = "finished"
       /\ Len(allResults) = Len(packageNames))

MaxRecords == 2   \* how many records the aggregate holds

\* what a record's strings can hold: names, addresses, markup, quotes,
\* backslashes and dollar signs
RecordTexts ==
    { <<"lodash">>,
      <<"git+https:", "/", "/", "github.com", "/", "lodash", "/", "lodash.git">>,
      <<"<", "/", "script>">>,
      <<"\"">>,
      <<"\\", "/">>,
      <<"$", "$">>, <<"$", "&">>, <<"$", Backtick>>, <<"$", "'">> }

\* the record of a package whose audit found matching content
ReportRecord(name, text) ==
    SetKey(SetKey(SetKey(EmptyObject, "packageName", name), "repoUrl", text),
           "contentMatches", TRUE)

\* the aggregates of a run given the first n names of the list
RecordLists ==
    UNION { { [i \in 1..n |-> ReportRecord(packageNames[i], texts[i])] :
                texts \in [1..n -> RecordTexts] } : n \in 0..MaxRecords }

\* the script at part_007:1111, the aggregate written, whatever the records
\* hold
ReportInit ==
    /\ allResults \in RecordLists
    /\ resultsHtml = Null
    /\ processStatus = "finished"
    /\ packageNamesQueue = <<>>
    /\ workers = [w \in 1..MAX_SIMULTANEOUS_AUDITS |-> Finished]
    /\ auditsDir = [n \in {packageNames[i] : i \in 1..Len(allResults)} |->
                        CHOOSE r \in SeqToSet(allResults) : r["packageName"] = n]
    /\ auditPc = "idle"
    /\ auditedPackage = <<>>
    /\ whatToAudit = {<<"all">>}
    /\ resultsFile = EmptyObject
    /\ resultJson = EmptyObject
    /\ buildDirFiles = {}
    /\ contentPaths = [built |-> <<>>, published |-> <<>>]
    /\ trees = [built |-> EmptyObject, published |-> EmptyObject]
    /\ caught = NothingThrown
    /\ escaped = NothingThrown
    /\ ops = <<>>
    /\ scriptArgs = [packageName |-> <<>>, gitUrl |-> "", version |-> <<>>,
                     publishedDate |-> <<>>]
    /\ pc = "idle"
    /\ repo = [tags |-> {}, manifestDirs |-> {}, yarnLock |-> FALSE, pnpmLock |-> FALSE]
    /\ cwd = <<"/">>
    /\ pkgMngr = "npm"
    /\ packageSubdir = Null
    /\ tagIdx = 1
    /\ manifests = [root |-> NoManifest, subdir |-> NoManifest]
    /\ hasBuilt = FALSE
    /\ finalTgz = Null
    /\ thrown = NoException
    /\ buildResult = EmptyObject
    /\ cmds = <<>>
    /\ outputDir = {}

ReportNext == GenerateReport

SpecReport == ReportInit /\ [][ReportNext]_vars

\* the text results.html holds in the place of the placeholder
InsertedText ==
    LET i == IndexOf(ResultsTemplate, <<"PLACEHOLDER">>)
        after == Len(ResultsTemplate) - i
    IN SubSeq(resultsHtml, i, Len(resultsHtml) - after)

NoUnescapedSlash(s) ==
    \A i \in 1..Len(s) : s[i] = "/" => (i > 1 /\ s[i - 1] = "\\")

\* C39 as claimed: whatever the records hold, the text that replaces the
\* placeholder is exactly the JSON of all records with each forward slash
\* preceded by a backslash, and holds no unescaped forward slash
C39_Original ==
    resultsHtml # Null =>
        /\ InsertedText = EscapedJson(allResults)
        /\ NoUnescapedSlash(InsertedText)

====
